---- MODULE Spec2Model ----
(***************************************************************************)
(* Model of the county-portal roof estimation pipeline of                  *)
(* PermitProject/app.py: the jurisdiction router, the two county scrapers  *)
(* (_bcpa_collect_property_data, _pbcpao_collect_property_data), the       *)
(* vision inference step (_ask_openai_pitch_complexity_waste) and the      *)
(* quantity estimator (generate_broward_estimate).                         *)
(*                                                                         *)
(* Strings are sequences of one-character strings, so that strip(),        *)
(* lower(), substring tests and the regular expressions of the source are  *)
(* computed, not assumed.  Floating point quantities are exact decimal     *)
(* fractions held as scaled integers (see the section on numbers).         *)
(***************************************************************************)
EXTENDS Integers, Sequences, FiniteSets, TLC

(***************************************************************************)
(* Strings                                                                 *)
(***************************************************************************)
UpperChars ==
    << "A","B","C","D","E","F","G","H","I","J","K","L","M",
       "N","O","P","Q","R","S","T","U","V","W","X","Y","Z" >>

LowerChars ==
    << "a","b","c","d","e","f","g","h","i","j","k","l","m",
       "n","o","p","q","r","s","t","u","v","w","x","y","z" >>

\* str.lower() on one character
LowerChar(c) ==
    IF \E i \in 1..26 : UpperChars[i] = c
    THEN LowerChars[CHOOSE i \in 1..26 : UpperChars[i] = c]
    ELSE c

\* str.lower()
Lower(s) == [i \in 1..Len(s) |-> LowerChar(s[i])]

\* the characters str.strip() and the regex class \s remove or match
IsSpace(c) == c \in {" ", "\t", "\n"}

\* str.strip(): drops leading and trailing whitespace
Strip(s) ==
    IF \A i \in 1..Len(s) : IsSpace(s[i])
    THEN << >>
    ELSE LET first == CHOOSE i \in 1..Len(s) :
                          /\ ~IsSpace(s[i])
                          /\ \A j \in 1..(i-1) : IsSpace(s[j])
             last  == CHOOSE i \in 1..Len(s) :
                          /\ ~IsSpace(s[i])
                          /\ \A j \in (i+1)..Len(s) : IsSpace(s[j])
         IN  SubSeq(s, first, last)

\* Python's "sub in s"
Contains(s, sub) ==
    \E i \in 1..(Len(s) - Len(sub) + 1) : SubSeq(s, i, i + Len(sub) - 1) = sub

\* s.startswith(prefix)
StartsWith(s, prefix) ==
    /\ Len(s) >= Len(prefix)
    /\ SubSeq(s, 1, Len(prefix)) = prefix

\* s.endswith(suffix)
EndsWith(s, suffix) ==
    /\ Len(s) >= Len(suffix)
    /\ SubSeq(s, Len(s) - Len(suffix) + 1, Len(s)) = suffix

(***************************************************************************)
(* String constants of the router, and the request inputs                  *)
(***************************************************************************)
\* the set palm_beach_cities of _is_palm_beach_address
palm_beach_cities ==
    { <<"b","o","c","a"," ","r","a","t","o","n">>,
      <<"b","o","y","n","t","o","n"," ","b","e","a","c","h">>,
      <<"d","e","l","r","a","y"," ","b","e","a","c","h">>,
      <<"j","u","p","i","t","e","r">>,
      <<"l","a","k","e"," ","w","o","r","t","h">>,
      <<"l","a","k","e"," ","w","o","r","t","h"," ","b","e","a","c","h">>,
      <<"w","e","s","t"," ","p","a","l","m"," ","b","e","a","c","h">>,
      <<"w","e","l","l","i","n","g","t","o","n">>,
      <<"p","a","l","m"," ","b","e","a","c","h"," ","g","a","r","d","e","n","s">>,
      <<"r","i","v","i","e","r","a"," ","b","e","a","c","h">>,
      <<"g","r","e","e","n","a","c","r","e","s">>,
      <<"p","a","l","m"," ","s","p","r","i","n","g","s">>,
      <<"l","a","n","t","a","n","a">>,
      <<"n","o","r","t","h"," ","p","a","l","m"," ","b","e","a","c","h">> }

\* the set of recognised Broward-area cities of generate_broward_estimate
broward_cities ==
    { <<"f","o","r","t"," ","l","a","u","d","e","r","d","a","l","e">>,
      <<"h","o","l","l","y","w","o","o","d">>,
      <<"p","o","m","p","a","n","o"," ","b","e","a","c","h">>,
      <<"c","o","r","a","l"," ","s","p","r","i","n","g","s">>,
      <<"s","u","n","r","i","s","e">>,
      <<"w","e","s","t","o","n">>,
      <<"d","a","v","i","e">>,
      <<"p","l","a","n","t","a","t","i","o","n">>,
      <<"m","i","r","a","m","a","r">>,
      <<"c","o","c","o","n","u","t"," ","c","r","e","e","k">>,
      <<"d","e","e","r","f","i","e","l","d"," ","b","e","a","c","h">>,
      <<"o","a","k","l","a","n","d"," ","p","a","r","k">>,
      <<"l","a","u","d","e","r","h","i","l","l">>,
      <<"t","a","m","a","r","a","c">> }

\* 'palm beach county'
S_palm_beach_county == <<"p","a","l","m"," ","b","e","a","c","h"," ","c","o","u","n","t","y">>

\* 'palm beach'
S_palm_beach == <<"p","a","l","m"," ","b","e","a","c","h">>

\* 'broward'
S_broward == <<"b","r","o","w","a","r","d">>

\* 'Broward'
S_Broward == <<"B","r","o","w","a","r","d">>

\* ' (Broward)'
S_BrowardSuffix == <<" ","(","B","r","o","w","a","r","d",")">>

\* ' '
S_space == <<" ">>

\* addresses a request may carry
Addresses ==
    << <<"1"," ","M","a","i","n"," ","S","t">>,  \* '1 Main St'
       <<"9"," ","O","a","k"," ","R","d"," ","P","a","l","m"," ","B","e","a","c","h"," ","C","o","u","n","t","y">>,  \* '9 Oak Rd Palm Beach County'
       <<"7"," ","E","l","m"," ","P","a","l","m">>,  \* '7 Elm Palm'
       <<"5"," ","P","a","l","m"," ","B","e","a","c","h"," ","A","v","e">>  \* '5 Palm Beach Ave'
    >>

\* city strings a request may carry
Cities ==
    << << >>,  \* ''
       <<"M","i","a","m","i">>,  \* 'Miami'
       <<"D","a","v","i","e">>,  \* 'Davie'
       <<" ","H","o","l","l","y","w","o","o","d"," ">>,  \* ' Hollywood '
       <<"S","U","N","R","I","S","E">>,  \* 'SUNRISE'
       <<"B","r","o","w","a","r","d"," ","C","o","u","n","t","y">>,  \* 'Broward County'
       <<"T","a","m","a","r","a","c"," ","(","B","r","o","w","a","r","d",")">>,  \* 'Tamarac (Broward)'
       <<"J","u","p","i","t","e","r"," ","F","a","r","m","s">>,  \* 'Jupiter Farms'
       <<"P","a","l","m"," "," ","B","e","a","c","h">>,  \* 'Palm  Beach'
       <<"B","e","a","c","h"," ","C","o","u","n","t","y">>,  \* 'Beach County'
       <<"P","a","l","m"," ","B","e","a","c","h">>,  \* 'Palm Beach'
       <<"W","E","S","T"," ","P","A","L","M"," ","B","E","A","C","H">>,  \* 'WEST PALM BEACH'
       <<"B","o","c","a"," ","R","a","t","o","n">>,  \* 'Boca Raton'
       <<" ","j","u","p","i","t","e","r"," ">>,  \* ' jupiter '
       <<"L","a","n","t","a","n","a">>,  \* 'Lantana'
       <<"F","o","r","t"," ","L","a","u","d","e","r","d","a","l","e">>  \* 'Fort Lauderdale'
    >>

(***************************************************************************)
(* Jurisdiction router                                                     *)
(***************************************************************************)
\* f"{address} {city}"
Combined(address, city) == address \o S_space \o city

\* a router that looks for "palm beach" in the city alone
city_contains_palm_beach(address, city) == Contains(Lower(city), S_palm_beach)

\* app.py: _is_palm_beach_address
_is_palm_beach_address(address, city) ==
    LET combined == Lower(Combined(address, city))
    IN  IF Contains(combined, S_palm_beach_county) THEN TRUE
        ELSE IF Contains(Lower(city), S_palm_beach) THEN TRUE
        ELSE Lower(Strip(city)) \in palm_beach_cities

\* the test without its list of recognised cities
LacksBrowardWord(cleaned) == ~Contains(Lower(cleaned), S_broward)

\* the test of generate_broward_estimate that the city does not yet indicate
\* Broward: "broward" not in cleaned_city.lower() and cleaned_city.lower()
\* not in {...}
NeedsBrowardSuffix(cleaned) ==
    /\ ~Contains(Lower(cleaned), S_broward)
    /\ Lower(cleaned) \notin broward_cities

\* the city label generate_broward_estimate passes to the Broward scraper
BrowardLabel(cleaned) ==
    IF NeedsBrowardSuffix(cleaned)
    THEN IF cleaned # << >> THEN cleaned \o S_BrowardSuffix ELSE S_Broward
    ELSE cleaned

(***************************************************************************)
(* Numbers.  A float of the program is an exact decimal fraction, held as  *)
(* an integer count of hundredths (ground area, waste percent), or of the  *)
(* unit its name states.  Products exceed 32 bits, so they are computed on *)
(* little-endian sequences of decimal digits.  The ground areas and the    *)
(* answers of the model are values on which the binary floating point of   *)
(* the program and the exact decimals round alike: no product of theirs    *)
(* falls on a rounding boundary.                                           *)
(***************************************************************************)
Abs(x) == IF x < 0 THEN -x ELSE x

Sign(x) == IF x < 0 THEN -1 ELSE 1

RECURSIVE Digits(_)
\* the decimal digits of a natural number, lowest first
Digits(n) == IF n = 0 THEN << >> ELSE << n % 10 >> \o Digits(n \div 10)

\* digits * m + carry (a function: its arguments are values when it is
\* applied)
MulCarry[ds \in Seq(0..9), m \in Nat, carry \in Nat] ==
    IF ds = << >> THEN Digits(carry)
    ELSE LET v == ds[1] * m + carry
         IN  << v % 10 >> \o MulCarry[Tail(ds), m, v \div 10]

\* digits * m, for a natural m
MulSmall(ds, m) == MulCarry[ds, m, 0]

RECURSIVE ToInt(_)
\* the number a digit sequence stands for
ToInt(ds) == IF ds = << >> THEN 0 ELSE ds[1] + 10 * ToInt(Tail(ds))

\* the digits of ds from position k+1 on: floor(ds / 10^k)
DropDigits(ds, k) == IF Len(ds) <= k THEN << >> ELSE SubSeq(ds, k + 1, Len(ds))

\* digit i of ds, 0 beyond its length
DigitAt(ds, i) == IF i >= 1 /\ i <= Len(ds) THEN ds[i] ELSE 0

\* the nearest integer to ds / 10^k, ties to the even one
HalfEven[ds \in Seq(0..9), k \in Nat] ==
    LET q     == ToInt(DropDigits(ds, k))
        top   == DigitAt(ds, k)
        below == \E i \in 1..(k-1) : DigitAt(ds, i) # 0
    IN  IF k = 0 THEN q
        ELSE IF top > 5 \/ (top = 5 /\ below) THEN q + 1
        ELSE IF top < 5 THEN q
        ELSE IF q % 2 = 0 THEN q ELSE q + 1

\* round(ds / 10^k) to the nearest integer, ties to the even one, as
\* Python's round() does
RoundDiv10(ds, k) == HalfEven[ds, k]

(***************************************************************************)
(* Text to number conversions                                              *)
(***************************************************************************)
DigitChars == << "0","1","2","3","4","5","6","7","8","9" >>

IsDigit(c) == \E i \in 1..10 : DigitChars[i] = c

DigitVal(c) == (CHOOSE i \in 1..10 : DigitChars[i] = c) - 1

\* str.replace(ch, "")
Remove(s, ch) == SelectSeq(s, LAMBDA c : c # ch)

RECURSIVE DigitsValue(_)
\* the value of a sequence of digit characters, highest first
DigitsValue(s) ==
    IF s = << >> THEN 0
    ELSE DigitsValue(SubSeq(s, 1, Len(s) - 1)) * 10 + DigitVal(s[Len(s)])

\* a conversion that raised (ValueError, TypeError)
Raised == [ok |-> FALSE, v |-> 0]

Value(x) == [ok |-> TRUE, v |-> x]

\* s without a leading sign
Unsigned(s) == IF s # << >> /\ s[1] \in {"-", "+"} THEN Tail(s) ELSE s

SignOf(s) == IF s # << >> /\ s[1] = "-" THEN -1 ELSE 1

\* Python's int(str): optional sign and decimal digits, surrounding
\* whitespace allowed; anything else is a ValueError
int_of_str(s) ==
    LET u == Unsigned(Strip(s))
    IN  IF u # << >> /\ \A i \in 1..Len(u) : IsDigit(u[i])
        THEN Value(SignOf(Strip(s)) * DigitsValue(u))
        ELSE Raised

\* Python's float(str), in hundredths: optional sign, digits with an
\* optional decimal point (at least one digit), surrounding whitespace
\* allowed; anything else is a ValueError.  Digits after the second
\* decimal are not representable here and the inputs carry none.
float_of_str(s) ==
    LET u    == Unsigned(Strip(s))
        dot  == IF \E i \in 1..Len(u) : u[i] = "."
                THEN CHOOSE i \in 1..Len(u) :
                         u[i] = "." /\ \A j \in 1..(i-1) : u[j] # "."
                ELSE Len(u) + 1
        ip   == SubSeq(u, 1, dot - 1)
        fp   == SubSeq(u, dot + 1, Len(u))
        frac == SubSeq(fp \o << "0", "0" >>, 1, 2)
    IN  IF /\ \A i \in 1..Len(ip) : IsDigit(ip[i])
           /\ \A i \in 1..Len(fp) : IsDigit(fp[i])
           /\ Len(ip) + Len(fp) >= 1
        THEN Value(SignOf(Strip(s)) * (DigitsValue(ip) * 100 + DigitsValue(frac)))
        ELSE Raised

(***************************************************************************)
(* _extract_total_adj_area: re.search of                                   *)
(*   Total\s+.*?\s+([\d,]+\.\d+|[\d,]+)\s*$     (re.MULTILINE)             *)
(* The matcher follows the backtracking order of the regex engine: the     *)
(* leftmost "Total", the first whitespace run as long as possible, the     *)
(* lazy middle as short as possible.                                       *)
(***************************************************************************)
S_Total == << "T","o","t","a","l" >>

\* the last position of the longest run of whitespace starting at p (p-1
\* when there is none)
SpaceRunEnd(text, p) ==
    CHOOSE e \in (p-1)..Len(text) :
        /\ \A j \in p..e : IsSpace(text[j])
        /\ e = Len(text) \/ ~IsSpace(text[e+1])

\* the same for whitespace other than a line break
BlankRunEnd(text, p) ==
    CHOOSE e \in (p-1)..Len(text) :
        /\ \A j \in p..e : IsSpace(text[j]) /\ text[j] # "\n"
        /\ e = Len(text) \/ ~IsSpace(text[e+1]) \/ text[e+1] = "\n"

\* the same for non-whitespace characters
TokenEnd(text, p) ==
    CHOOSE e \in (p-1)..Len(text) :
        /\ \A j \in p..e : ~IsSpace(text[j])
        /\ e = Len(text) \/ IsSpace(text[e+1])

\* the same for the class [\d,]
DigitCommaRunEnd(text, p) ==
    CHOOSE e \in (p-1)..Len(text) :
        /\ \A j \in p..e : IsDigit(text[j]) \/ text[j] = ","
        /\ e = Len(text) \/ ~(IsDigit(text[e+1]) \/ text[e+1] = ",")

\* the same for the class \d
DigitRunEnd(text, p) ==
    CHOOSE e \in (p-1)..Len(text) :
        /\ \A j \in p..e : IsDigit(text[j])
        /\ e = Len(text) \/ ~IsDigit(text[e+1])

\* \s*$ matches after position d: only blanks up to the end of the line
EndOfLineAfter(text, d) ==
    LET e == BlankRunEnd(text, d + 1)
    IN  e = Len(text) \/ text[e+1] = "\n"

\* the last position of ([\d,]+\.\d+|[\d,]+)\s*$ matched from position n,
\* 0 when it does not match there
NumEnd(text, n) ==
    LET r  == DigitCommaRunEnd(text, n)
        d1 == DigitRunEnd(text, r + 2)
    IN  IF r < n THEN 0
        ELSE IF r + 1 <= Len(text) /\ text[r+1] = "."
             THEN IF d1 >= r + 2 /\ EndOfLineAfter(text, d1) THEN d1 ELSE 0
             ELSE IF EndOfLineAfter(text, r) THEN r ELSE 0

RECURSIVE ScanRuns(_, _)
\* with the middle .*? starting at the token at pos: the start of the first
\* number that follows a whitespace run and ends its line, the middle
\* never crossing a line break; 0 when there is none
ScanRuns(text, pos) ==
    LET t == TokenEnd(text, pos)
        c == SpaceRunEnd(text, t + 1)
    IN  IF t >= Len(text) THEN 0
        ELSE IF NumEnd(text, c + 1) # 0 THEN c + 1
        ELSE IF \E j \in (t+1)..c : text[j] = "\n" THEN 0
        ELSE IF c >= Len(text) THEN 0
        ELSE ScanRuns(text, c + 1)

\* the start of group(1) for a match beginning with the "Total" at i, 0 when
\* the pattern does not match there
MatchAt(text, i) ==
    LET p  == i + 5
        a  == SpaceRunEnd(text, p)
        n1 == IF a < Len(text) THEN ScanRuns(text, a + 1) ELSE 0
    IN  IF i + 4 > Len(text) \/ SubSeq(text, i, i + 4) # S_Total THEN 0
        ELSE IF a < p THEN 0
        ELSE IF n1 # 0 THEN n1
        ELSE IF a - p + 1 >= 2 /\ NumEnd(text, a + 1) # 0 THEN a + 1
        ELSE 0

\* re.search(...) found a match
TotalMatches(text) == \E i \in 1..Len(text) : MatchAt(text, i) # 0

\* match.group(1) of the leftmost match
TotalGroup(text) ==
    LET i == CHOOSE k \in 1..Len(text) :
                 /\ MatchAt(text, k) # 0
                 /\ \A j \in 1..(k-1) : MatchAt(text, j) = 0
        n == MatchAt(text, i)
    IN  SubSeq(text, n, NumEnd(text, n))

\* _extract_total_adj_area with a default of 0 in place of the ValueError
extract_total_adj_area_or_zero(sketch_text) ==
    IF ~TotalMatches(sketch_text) THEN Value(0)
    ELSE float_of_str(Remove(TotalGroup(sketch_text), ","))

\* app.py: _extract_total_adj_area, in hundredths; Raised for its
\* ValueError
_extract_total_adj_area(sketch_text) ==
    IF ~TotalMatches(sketch_text) THEN Raised
    ELSE float_of_str(Remove(TotalGroup(sketch_text), ","))

(***************************************************************************)
(* JSON values of the model's answer, and the defensive conversions        *)
(***************************************************************************)
\* Python's None, and what dict.get returns for an absent key
JNull == [t |-> "null"]

\* the mark of a key the answer does not hold
JMissing == [t |-> "missing"]

\* a JSON number, in hundredths
JNum(c) == [t |-> "num", c |-> c]

\* a JSON string
JStr(s) == [t |-> "str", s |-> s]

\* dict.get(key)
Get(d, key) == IF d[key] = JMissing THEN JNull ELSE d[key]

S_None == <<"N","o","n","e">>

S_minus == <<"-">>

S_dot == <<".">>

RECURSIVE NatText(_)
\* str(n) for a natural number
NatText(n) ==
    IF n < 10 THEN << DigitChars[n + 1] >>
    ELSE NatText(n \div 10) \o << DigitChars[(n % 10) + 1] >>

\* str(value): the text of None, of a string, of a number (a whole number
\* prints as an int, any other with its decimals)
str(value) ==
    IF value.t = "null" THEN S_None
    ELSE IF value.t = "str" THEN value.s
    ELSE LET a == Abs(value.c)
             whole == (IF value.c < 0 THEN S_minus ELSE << >>) \o NatText(a \div 100)
         IN  IF a % 100 = 0 THEN whole
             ELSE IF a % 10 = 0 THEN whole \o S_dot \o NatText((a % 100) \div 10)
             ELSE whole \o S_dot \o NatText((a % 100) \div 10) \o NatText(a % 10)

\* int(value): of a number its truncation toward zero, of a string its
\* parse; None raises TypeError
int_of(value) ==
    IF value.t = "null" THEN Raised
    ELSE IF value.t = "num" THEN Value(Sign(value.c) * (Abs(value.c) \div 100))
    ELSE int_of_str(value.s)

\* float(value), in hundredths
float_of(value) ==
    IF value.t = "null" THEN Raised
    ELSE IF value.t = "num" THEN Value(value.c)
    ELSE float_of_str(value.s)

\* app.py: _safe_int
_safe_int(value, fallback) ==
    IF int_of(value).ok THEN int_of(value).v ELSE fallback

\* app.py: _safe_float, in hundredths
_safe_float(value, fallback) ==
    IF float_of(value).ok THEN float_of(value).v ELSE fallback

(***************************************************************************)
(* Quantity estimator tables                                               *)
(***************************************************************************)
\* app.py: BROWARD_PITCH_MULTIPLIERS, in thousandths
BROWARD_PITCH_MULTIPLIERS ==
    (0 :> 1000) @@ (2 :> 1014) @@ (3 :> 1031) @@ (4 :> 1054) @@
    (5 :> 1083) @@ (6 :> 1118) @@ (7 :> 1158) @@ (8 :> 1202) @@
    (9 :> 1250) @@ (10 :> 1302) @@ (12 :> 1414)

S_simple == <<"s","i","m","p","l","e">>

S_moderate == <<"m","o","d","e","r","a","t","e">>

S_complex == <<"c","o","m","p","l","e","x">>

\* app.py: BROWARD_COMPLEXITY_MULTIPLIERS, in hundredths
BROWARD_COMPLEXITY_MULTIPLIERS ==
    (S_simple :> 100) @@ (S_moderate :> 105) @@ (S_complex :> 110)

\* app.py: BROWARD_ESTIMATOR_ADJUSTMENT, in hundredths
BROWARD_ESTIMATOR_ADJUSTMENT == 106

\* app.py: BROWARD_WASTE_OPTIONS
BROWARD_WASTE_OPTIONS == << 0, 10, 12, 15, 17, 20, 22 >>

\* the fallback pitch of _safe_int(ai_guess.get("pitch"), 5)
DefaultPitch == 5

\* the fallback waste of _safe_float(ai_guess.get("waste_percent"), 12.0),
\* in hundredths
DefaultWaste == 1200

\* the fallback of BROWARD_PITCH_MULTIPLIERS.get(pitch, 1.118), in
\* thousandths
DefaultPitchMultiplier == 1118

\* the fallback of BROWARD_COMPLEXITY_MULTIPLIERS.get(complexity, 1.05), in
\* hundredths
DefaultComplexityMultiplier == 105

\* the tolerance of abs(option - waste_percent) < 1.1, in hundredths
RecommendTolerance == 110

\* BROWARD_PITCH_MULTIPLIERS.get(pitch, 1.0): a flat roof for an unknown pitch
PitchMultiplierFlat(pitch) ==
    IF pitch \in DOMAIN BROWARD_PITCH_MULTIPLIERS
    THEN BROWARD_PITCH_MULTIPLIERS[pitch]
    ELSE 1000

\* BROWARD_PITCH_MULTIPLIERS.get(pitch, 1.118)
PitchMultiplier(pitch) ==
    IF pitch \in DOMAIN BROWARD_PITCH_MULTIPLIERS
    THEN BROWARD_PITCH_MULTIPLIERS[pitch]
    ELSE DefaultPitchMultiplier

\* BROWARD_COMPLEXITY_MULTIPLIERS.get(complexity, 1.05)
ComplexityMultiplier(complexity) ==
    IF complexity \in DOMAIN BROWARD_COMPLEXITY_MULTIPLIERS
    THEN BROWARD_COMPLEXITY_MULTIPLIERS[complexity]
    ELSE DefaultComplexityMultiplier

(***************************************************************************)
(* The estimate request: state                                             *)
(***************************************************************************)
VARIABLES
    pc,               \* where the request is in generate_broward_estimate
    address,          \* argument address
    city,             \* argument city
    cleaned_city,     \* local cleaned_city
    is_palm_beach,    \* local is_palm_beach
    api_key,          \* whether OPENAI_API_KEY is set
    files,            \* BROWARD_OUTPUT_DIR: file name -> absent, stale, fresh
    session,          \* the browser session: none, open, quit
    quits,            \* driver.quit() calls of this request
    handles,          \* driver.window_handles, in order of opening
    active,           \* the window the driver is switched to (0: none)
    loc,              \* locals of the running scraper
    bcpa_data,        \* what the scraper returned
    ground_area,      \* local ground_area, in hundredths
    photo_data_uri,   \* local photo_data_uri
    sketch_data_uri,  \* local sketch_data_uri
    content,          \* image parts of the request sent to the model
    ai_guess,         \* the parsed answer of the model
    result,           \* the returned EstimateResult
    error,            \* the exception generate_broward_estimate raised
    conc,             \* requests served at the same time: the directory
                      \* they share and what each has read of it
    pricing,          \* a call of generate_sci_pricing_estimate: its
                      \* payload and what it returned
    page              \* the estimator page as roof_estimator rendered it
                      \* last

\* the arguments and the environment of a request
\* what a request is given and does not change
envVars == << address, city, api_key, conc, pricing, page >>

\* the arguments of a request and what the router made of them
reqVars == << envVars, cleaned_city, is_palm_beach >>

\* the locals of generate_broward_estimate after the scrape
estVars ==
    << ground_area, photo_data_uri, sketch_data_uri, content, ai_guess,
       result >>

vars ==
    << pc, address, city, cleaned_city, is_palm_beach, api_key, files,
       session, quits, handles, active, loc, bcpa_data, ground_area,
       photo_data_uri, sketch_data_uri, content, ai_guess, result, error,
       conc, pricing, page >>

\* no value yet (None)
None == [t |-> "none"]

\* an empty data URI ("")
NoImage == [src |-> "", age |-> ""]

\* the data URI of the bytes of src (a file of the directory, or the
\* remote photo), as written by this request (fresh) or an earlier one
\* (stale)
Image(src, age) == [src |-> src, age |-> age]

\* the files of BROWARD_OUTPUT_DIR the scrapers write or download
FileNames ==
    { "sketch.png", "map.png", "palm_beach_sketch.png", "palm_beach_map.png",
      "palm_beach_street.png", "sketch.pdf" }

\* os.path.exists(path)
Exists(fs, path) == path \in FileNames /\ fs[path] # "absent"

\* driver.save_screenshot(path): writes the file, or returns False without
\* raising when the write fails (saved = FALSE)
save_screenshot(fs, path, saved) ==
    IF saved THEN [fs EXCEPT ![path] = "fresh"] ELSE fs

\* the locals of a scraper before it runs
InitLoc ==
    [ existing_handles |-> << >>, gis_tab |-> 0, opened |-> 0,
      photo_url |-> "", sketch_text |-> << >>, ground_area |-> JNull,
      latest_pdf |-> "", street_tile |-> "", raised |-> "" ]

\* texts the sketch page, tab or PDF may render (driver ... body.text)
SketchTexts ==
    << <<"S","k","e","t","c","h","\n","T","o","t","a","l"," ","A","d","j"," ","A","r","e","a"," ","2",",","0","0","0","\n">>,  \* 'Sketch\nTotal Adj Area 2,000\n'
       <<"T","o","t","a","l"," ","A","d","j"," ","A","r","e","a"," ","1",",","2","3","4",".","5","6">>,  \* 'Total Adj Area 1,234.56'
       <<"T","o","t","a","l"," ","A","d","j"," ","A","r","e","a"," ","0">>,  \* 'Total Adj Area 0'
       <<"T","o","t","a","l"," ","A","r","e","a"," ",",">>,  \* 'Total Area ,'
       <<"N","o"," ","s","k","e","t","c","h"," ","a","v","a","i","l","a","b","l","e">>  \* 'No sketch available'
    >>


\* texts the 'Total Square Footage' cell of the Palm Beach portal may hold
CellTexts ==
    << <<"2",",","0","0","0">>,  \* '2,000'
       <<" ","1",",","8","5","0",".","5"," ">>,  \* ' 1,850.5 '
       <<"0">>,  \* '0'
       <<"N","/","A">>  \* 'N/A'
    >>


\* the src attribute of the property photo: a remote URL, or none
PhotoUrls == { "https", "" }

\* the (address, city) pairs a request may carry
Requests ==
    { << Addresses[1], Cities[1] >>, << Addresses[1], Cities[2] >>,
      << Addresses[1], Cities[4] >>, << Addresses[1], Cities[7] >>,
      << Addresses[1], Cities[13] >>, << Addresses[2], Cities[3] >> }

\* every (address, city) pair the router is examined on
RouterInputs ==
    { << Addresses[a], Cities[c] >> :
        a \in 1..Len(Addresses), c \in 1..Len(Cities) }

\* generate_broward_estimate has been called with the pair r
Arrived(r) ==
    /\ pc = "start"
    /\ address = r[1]
    /\ city = r[2]
    /\ cleaned_city = << >>
    /\ is_palm_beach = FALSE
    /\ session = "none"
    /\ quits = 0
    /\ handles = << >>
    /\ active = 0
    /\ loc = InitLoc
    /\ bcpa_data = None
    /\ ground_area = 0
    /\ photo_data_uri = NoImage
    /\ sketch_data_uri = NoImage
    /\ content = << >>
    /\ ai_guess = None
    /\ result = None
    /\ error = ""

\* the page of a GET: no result, no pricing, empty forms
NoPage ==
    [ broward_form   |-> [ search_address |-> << >>, search_city |-> << >>,
                           result_email |-> << >> ],
      pricing_form   |-> [ access_level |-> << >>, material |-> << >> ],
      broward_result |-> None,
      pricing_result |-> None,
      estimate       |-> None,
      mail           |-> None,
      flashes        |-> { } ]

\* no call of generate_sci_pricing_estimate
NoPricing == [ payload |-> << >>, result |-> None ]

\* no requests served at the same time
NoConc == [ files |-> [f \in FileNames |-> 0], req |-> << >> ]

\* a request arrives; the key is configured or not, and the output directory
\* is empty or holds the files of earlier requests
Init ==
    /\ \E r \in Requests : Arrived(r)
    /\ conc = NoConc
    /\ pricing = NoPricing
    /\ page = NoPage
    /\ api_key \in BOOLEAN
    /\ files \in { [f \in FileNames |-> "absent"], [f \in FileNames |-> "stale"] }

\* the router on every input pair
InitRouter ==
    /\ \E r \in RouterInputs : Arrived(r)
    /\ conc = NoConc
    /\ pricing = NoPricing
    /\ page = NoPage
    /\ api_key = TRUE
    /\ files = [f \in FileNames |-> "absent"]

\* generate_broward_estimate: lines 2711-2722, up to the call of a scraper
Start ==
    /\ pc = "start"
    /\ LET stripped == Strip(city)
           pb       == _is_palm_beach_address(address, stripped)
       IN  /\ is_palm_beach' = pb
           /\ cleaned_city' = IF pb THEN stripped ELSE BrowardLabel(stripped)
           /\ pc' = IF pb THEN "pb_create" ELSE "bcpa_create"
    /\ UNCHANGED << envVars, estVars, files, session, quits, handles,
                    active, loc, bcpa_data, error >>

(***************************************************************************)
(* The browser session                                                     *)
(***************************************************************************)
\* create_driver(): a session with one window, or an exception that leaves
\* no session
create_driver(ok, next) ==
    /\ IF ok
       THEN /\ session' = "open"
            /\ handles' = << 1 >>
            /\ active' = 1
            /\ loc' = [loc EXCEPT !.opened = 1]
            /\ pc' = next
            /\ error' = error
       ELSE /\ pc' = "failed"
            /\ error' = "WebDriverException"
            /\ UNCHANGED << session, handles, active, loc >>
    /\ UNCHANGED << reqVars, estVars, files, quits, bcpa_data >>

\* an exception caught where it is raised and logged: the step is tried
\* again
RaiseLogged(exc, finally) ==
    /\ loc' = [loc EXCEPT !.raised = exc]
    /\ pc' = pc

\* an exception raised inside the try block: control goes to finally
Raise(exc, finally) ==
    /\ loc' = [loc EXCEPT !.raised = exc]
    /\ pc' = finally

\* a wait without its timeout: it passes, or it goes on waiting for what
\* never comes
WaitWithoutTimeout(here, next, finally, exc) ==
    /\ pc = here
    /\ \/ pc' = next
       \/ pc' = "waiting"
    /\ loc' = loc
    /\ UNCHANGED << reqVars, estVars, files, session, quits, handles,
                    active, bcpa_data, error >>

\* a step of a scraper that only waits or navigates: it passes or raises
WaitStep(here, next, finally, exc) ==
    /\ pc = here
    /\ \/ /\ pc' = next
          /\ loc' = loc
       \/ Raise(exc, finally)
    /\ UNCHANGED << reqVars, estVars, files, session, quits, handles,
                    active, bcpa_data, error >>

\* a click that should open a tab, followed by the switch to it.  With
\* arrived the new handle is in driver.window_handles when it is read.
OpenTab(arrived) ==
    IF arrived
    THEN /\ handles' = Append(handles, loc.opened + 1)
         /\ active' = loc.opened + 1
    ELSE UNCHANGED << handles, active >>

\* driver.switch_to.window(back) without driver.close()
SwitchWithoutClose(back) ==
    /\ handles' = handles
    /\ active' = back

\* driver.close() then driver.switch_to.window(back)
CloseTab(back) ==
    /\ handles' = SelectSeq(handles, LAMBDA h : h # active)
    /\ active' = back

\* the scraper handing its open driver back with the evidence, for the
\* caller to quit once the estimate is complete
ReturnWithSession(here, data) ==
    /\ pc = here
    /\ IF loc.raised = ""
       THEN /\ UNCHANGED << quits, session, handles, active >>
            /\ bcpa_data' = data
            /\ pc' = "ground"
            /\ error' = error
       ELSE /\ quits' = quits + 1
            /\ session' = "quit"
            /\ handles' = << >>
            /\ active' = 0
            /\ bcpa_data' = bcpa_data
            /\ pc' = "failed"
            /\ error' = loc.raised
    /\ loc' = InitLoc
    /\ UNCHANGED << reqVars, estVars, files >>

\* the scraper with driver.quit() as the last statement of the try block in
\* place of the finally clause: an exception leaves the session open
QuitAtEndOfTry(here, data) ==
    /\ pc = here
    /\ IF loc.raised = ""
       THEN /\ quits' = quits + 1
            /\ session' = "quit"
            /\ handles' = << >>
            /\ active' = 0
            /\ bcpa_data' = data
            /\ pc' = "ground"
            /\ error' = error
       ELSE /\ UNCHANGED << quits, session, handles, active, bcpa_data >>
            /\ pc' = "failed"
            /\ error' = loc.raised
    /\ loc' = InitLoc
    /\ UNCHANGED << reqVars, estVars, files >>

\* finally: driver.quit(), then the return value or the pending exception;
\* the locals of the scraper end with it
Finally(here, data) ==
    /\ pc = here
    /\ quits' = quits + 1
    /\ session' = "quit"
    /\ handles' = << >>
    /\ active' = 0
    /\ IF loc.raised = ""
       THEN /\ bcpa_data' = data
            /\ pc' = "ground"
            /\ error' = error
       ELSE /\ bcpa_data' = bcpa_data
            /\ pc' = "failed"
            /\ error' = loc.raised
    /\ loc' = InitLoc
    /\ UNCHANGED << reqVars, estVars, files >>

(***************************************************************************)
(* _bcpa_collect_property_data (Broward)                                   *)
(***************************************************************************)
\* line 2376: driver = create_driver(), before the try block
BcpaCreateDriver ==
    /\ pc = "bcpa_create"
    /\ \E ok \in BOOLEAN : create_driver(ok, "bcpa_get")

\* lines 2382-2383: driver.get(record search)
BcpaGet ==
    WaitStep("bcpa_get", "bcpa_addr_box", "bcpa_finally", "WebDriverException")

\* lines 2385-2387: wait for the address box, type the query
BcpaAddrBox ==
    WaitStep("bcpa_addr_box", "bcpa_search", "bcpa_finally", "TimeoutException")

\* lines 2389-2390: wait for the search button, click
BcpaSearch ==
    WaitStep("bcpa_search", "bcpa_open_record", "bcpa_finally", "TimeoutException")

\* lines 2392-2395: open the record unless the search landed on it
BcpaOpenRecord ==
    WaitStep("bcpa_open_record", "bcpa_photo", "bcpa_finally", "TimeoutException")

\* lines 2396-2397: wait for the property photo, read its src
BcpaPhoto ==
    /\ pc = "bcpa_photo"
    /\ \/ \E u \in PhotoUrls :
            /\ loc' = [loc EXCEPT !.photo_url = u]
            /\ pc' = "bcpa_sketch_click"
       \/ Raise("TimeoutException", "bcpa_finally")
    /\ UNCHANGED << reqVars, estVars, files, session, quits, handles,
                    active, bcpa_data, error >>

\* a capture's click, lines 2400-2403 and 2428-2434: record the handles,
\* wait for the button and click it, take the first handle that is not in
\* the recorded ones (IndexError when there is none), switch to it
BcpaClick(here, next) ==
    /\ pc = here
    /\ \/ \E arrived \in BOOLEAN :
            /\ OpenTab(arrived)
            /\ IF arrived
               THEN /\ loc' = [loc EXCEPT !.existing_handles = handles,
                                          !.opened = @ + 1]
                    /\ pc' = next
               ELSE /\ loc' = [loc EXCEPT !.existing_handles = handles,
                                          !.raised = "IndexError"]
                    /\ pc' = "bcpa_finally"
       \/ /\ Raise("TimeoutException", "bcpa_finally")
          /\ UNCHANGED << handles, active >>
    /\ UNCHANGED << reqVars, estVars, files, session, quits, bcpa_data,
                    error >>

BcpaSketchClick == BcpaClick("bcpa_sketch_click", "bcpa_sketch_capture")

\* lines 2404-2421: read the sketch page's text, resize, save the screenshot
BcpaSketchCapture ==
    /\ pc = "bcpa_sketch_capture"
    /\ \/ \E k \in 1..Len(SketchTexts), saved \in BOOLEAN :
            /\ loc' = [loc EXCEPT !.sketch_text = SketchTexts[k]]
            /\ files' = save_screenshot(files, "sketch.png", saved)
            /\ pc' = "bcpa_sketch_close"
       \/ /\ Raise("WebDriverException", "bcpa_finally")
          /\ files' = files
    /\ UNCHANGED << reqVars, estVars, session, quits, handles, active,
                    bcpa_data, error >>

\* a capture's end, lines 2424-2425 and 2437-2438: close the tab, switch to
\* existing_handles[0]
BcpaClose(here, next) ==
    /\ pc = here
    /\ CloseTab(loc.existing_handles[1])
    /\ pc' = next
    /\ UNCHANGED << reqVars, estVars, files, session, quits, loc, bcpa_data,
                    error >>

BcpaSketchClose == BcpaClose("bcpa_sketch_close", "bcpa_map_click")

BcpaMapClick == BcpaClick("bcpa_map_click", "bcpa_map_capture")

\* lines 2435-2436: save the screenshot of the map tab
BcpaMapCapture ==
    /\ pc = "bcpa_map_capture"
    /\ \/ \E saved \in BOOLEAN :
            /\ files' = save_screenshot(files, "map.png", saved)
            /\ pc' = "bcpa_map_close"
            /\ loc' = loc
       \/ /\ Raise("WebDriverException", "bcpa_finally")
          /\ files' = files
    /\ UNCHANGED << reqVars, estVars, session, quits, handles, active,
                    bcpa_data, error >>

BcpaMapClose == BcpaClose("bcpa_map_close", "bcpa_finally")

\* lines 2440-2447: the returned dict, and finally: driver.quit()
BcpaFinally ==
    Finally("bcpa_finally",
            [ photo_url |-> loc.photo_url, sketch_text |-> loc.sketch_text,
              sketch_file |-> "sketch.png", map_file |-> "map.png",
              street_file |-> "", ground_area |-> JNull ])

(***************************************************************************)
(* _pbcpao_collect_property_data (Palm Beach)                              *)
(***************************************************************************)
\* line 2465: driver = create_driver(), before the try block
PbCreateDriver ==
    /\ pc = "pb_create"
    /\ \E ok \in BOOLEAN : create_driver(ok, "pb_get")

\* lines 2469-2470: driver.get(portal)
PbGet ==
    WaitStep("pb_get", "pb_search_box", "pb_finally", "WebDriverException")

\* lines 2472-2478: wait for the search box, type, arrow down, enter
PbSearchBox ==
    WaitStep("pb_search_box", "pb_ground_area", "pb_finally", "TimeoutException")

\* lines 2480-2483: float(cell.text.replace(",", "").strip()); the cell may
\* be missing (NoSuchElementException) or hold no number (ValueError)
PbGroundArea ==
    /\ pc = "pb_ground_area"
    /\ \/ \E k \in 1..Len(CellTexts) :
            LET f == float_of_str(Strip(Remove(CellTexts[k], ",")))
            IN  IF f.ok
                THEN /\ loc' = [loc EXCEPT !.ground_area = JNum(f.v)]
                     /\ pc' = "pb_remove_pdfs"
                ELSE Raise("ValueError", "pb_finally")
       \/ Raise("NoSuchElementException", "pb_finally")
    /\ UNCHANGED << reqVars, estVars, files, session, quits, handles,
                    active, bcpa_data, error >>

\* lines 2485-2495: remove the PDFs of the directory; a removal that fails
\* (OSError) is logged and the PDF stays
PbRemovePdfs ==
    /\ pc = "pb_remove_pdfs"
    /\ \E removed \in BOOLEAN :
          files' = IF removed THEN [files EXCEPT !["sketch.pdf"] = "absent"]
                   ELSE files
    /\ pc' = "pb_sketch_button"
    /\ UNCHANGED << reqVars, estVars, session, quits, handles, active, loc,
                    bcpa_data, error >>

\* lines 2497-2499: wait for the sketch link
PbSketchButton ==
    WaitStep("pb_sketch_button", "pb_sketch_click", "pb_finally", "TimeoutException")

\* lines 2501-2516: click; when the click opened a tab, switch to it, save
\* its screenshot, read its text, close it and switch back
PbSketchClick ==
    /\ pc = "pb_sketch_click"
    /\ \/ \* no tab opened
          /\ pc' = "pb_pdf_poll"
          /\ UNCHANGED << files, handles, active, loc >>
       \/ \* a tab opened and was captured
          \E k \in 1..Len(SketchTexts), saved \in BOOLEAN :
            /\ files' = save_screenshot(files, "palm_beach_sketch.png", saved)
            /\ loc' = [loc EXCEPT !.sketch_text = SketchTexts[k],
                                  !.opened = @ + 1]
            /\ pc' = "pb_pdf_poll"
            /\ UNCHANGED << handles, active >>
       \/ \* a tab opened and its capture raised
          /\ OpenTab(TRUE)
          /\ loc' = [loc EXCEPT !.opened = @ + 1,
                                !.raised = "WebDriverException"]
          /\ pc' = "pb_finally"
          /\ files' = files
    /\ UNCHANGED << reqVars, estVars, session, quits, bcpa_data, error >>

\* lines 2518-2529: poll the directory for a .pdf for at most 20 seconds;
\* the newest by ctime is taken.  The download arrives in time or not.
PbPdfPoll ==
    /\ pc = "pb_pdf_poll"
    /\ \E downloaded \in BOOLEAN :
          /\ files' = IF downloaded THEN [files EXCEPT !["sketch.pdf"] = "fresh"]
                      ELSE files
          /\ loc' = [loc EXCEPT !.latest_pdf =
                         IF Exists(files', "sketch.pdf") THEN "sketch.pdf" ELSE ""]
    /\ pc' = "pb_pdf_check"
    /\ UNCHANGED << reqVars, estVars, session, quits, handles, active,
                    bcpa_data, error >>

\* lines 2531-2546: without a PDF, go on if the sketch file exists and raise
\* otherwise; with a PDF, open it, read its text, save its screenshot and
\* go back to the property page
PbPdfCheck ==
    /\ pc = "pb_pdf_check"
    /\ IF loc.latest_pdf = ""
       THEN /\ IF Exists(files, "palm_beach_sketch.png")
               THEN pc' = "pb_map_button" /\ loc' = loc
               ELSE Raise("Exception: Sketch PDF not saved.", "pb_finally")
            /\ files' = files
       ELSE \/ \E k \in 1..Len(SketchTexts), saved \in BOOLEAN :
                 /\ loc' = [loc EXCEPT !.sketch_text = SketchTexts[k]]
                 /\ files' = save_screenshot(files, "palm_beach_sketch.png", saved)
                 /\ pc' = "pb_map_button"
            \/ /\ Raise("WebDriverException", "pb_finally")
               /\ files' = files
    /\ UNCHANGED << reqVars, estVars, session, quits, handles, active,
                    bcpa_data, error >>

\* a click of the Palm Beach scraper that must open a tab, lines 2549-2558,
\* 2564-2571 and 2578-2585: wait for the button, click, wait until the
\* number of handles grew (TimeoutException otherwise), switch to the new
\* handle
PbOpenTab(here, next) ==
    /\ pc = here
    /\ \/ /\ OpenTab(TRUE)
          /\ loc' = [loc EXCEPT !.existing_handles = handles,
                                !.opened = @ + 1,
                                !.gis_tab = IF here = "pb_map_button"
                                            THEN loc.opened + 1 ELSE @]
          /\ pc' = next
       \/ /\ loc' = [loc EXCEPT !.existing_handles = handles,
                                !.raised = "TimeoutException"]
          /\ pc' = "pb_finally"
          /\ UNCHANGED << handles, active >>
    /\ UNCHANGED << reqVars, estVars, files, session, quits, bcpa_data,
                    error >>

\* lines 2548-2559: open the GIS viewer in its tab
PbMapButton == PbOpenTab("pb_map_button", "pb_tools_tab")

\* lines 2561-2562: wait for the tools tab, click
PbToolsTab ==
    WaitStep("pb_tools_tab", "pb_print", "pb_finally", "TimeoutException")

\* lines 2564-2572: Print Map opens a further tab
PbPrint == PbOpenTab("pb_print", "pb_print_capture")

\* lines 2573-2575: save the map screenshot, close the print tab, switch to
\* the GIS tab
PbPrintCapture ==
    /\ pc = "pb_print_capture"
    /\ \/ \E saved \in BOOLEAN :
            /\ files' = save_screenshot(files, "palm_beach_map.png", saved)
            /\ CloseTab(loc.gis_tab)
            /\ pc' = "pb_google"
            /\ loc' = loc
       \/ /\ Raise("WebDriverException", "pb_finally")
          /\ UNCHANGED << files, handles, active >>
    /\ UNCHANGED << reqVars, estVars, session, quits, bcpa_data, error >>

\* lines 2577-2586: Google Maps opens in a further tab
PbGoogle == PbOpenTab("pb_google", "pb_street")

\* the street view step without the try block around the wait for the
\* tile: a tile that does not come raises the TimeoutException of the wait
PbStreetUncaught ==
    /\ pc = "pb_street"
    /\ \/ \E saved \in BOOLEAN :
            /\ files' = save_screenshot(files, "palm_beach_street.png", saved)
            /\ pc' = "pb_finally"
            /\ loc' = [loc EXCEPT !.street_tile = "found"]
       \/ /\ loc' = [loc EXCEPT !.street_tile = "missing",
                                !.raised = "TimeoutException"]
          /\ pc' = "pb_finally"
          /\ files' = files
       \/ \E tile \in { "found", "missing" } :
            /\ loc' = [loc EXCEPT !.street_tile = tile,
                                  !.raised = "WebDriverException"]
            /\ pc' = "pb_finally"
            /\ files' = files
    /\ UNCHANGED << reqVars, estVars, session, quits, handles, active,
                    bcpa_data, error >>

\* lines 2588-2595: wait for the street view tile and click it; any
\* exception of that (the tile not found) is logged and dropped.  Then the
\* screenshot of the tab is saved, which may raise.
PbStreet ==
    /\ pc = "pb_street"
    /\ \E tile \in { "found", "missing" } :
         \/ \E saved \in BOOLEAN :
              /\ files' = save_screenshot(files, "palm_beach_street.png",
                                          saved)
              /\ pc' = "pb_finally"
              /\ loc' = [loc EXCEPT !.street_tile = tile]
         \/ /\ loc' = [loc EXCEPT !.street_tile = tile,
                                  !.raised = "WebDriverException"]
            /\ pc' = "pb_finally"
            /\ files' = files
    /\ UNCHANGED << reqVars, estVars, session, quits, handles, active,
                    bcpa_data, error >>

\* lines 2597-2606: the returned dict, and finally: driver.quit()
PbFinally ==
    Finally("pb_finally",
            [ photo_url |-> "", sketch_text |-> loc.sketch_text,
              sketch_file |-> "palm_beach_sketch.png",
              map_file |-> "palm_beach_map.png",
              street_file |-> "palm_beach_street.png",
              ground_area |-> loc.ground_area ])

(***************************************************************************)
(* Quantity estimator (generate_broward_estimate, lines 2788-2840)         *)
(***************************************************************************)
\* roof_surface = ground_area * pitch_multiplier * complexity_multiplier,
\* as digits of units of 10^-7
roof_surface(ground, pitch_multiplier, complexity_multiplier) ==
    MulSmall(MulSmall(Digits(ground), pitch_multiplier), complexity_multiplier)

\* the roof surface passed on without the calibration factor
adjusted_surface_uncalibrated(surface) == MulSmall(surface, 100)

\* adjusted_surface = roof_surface * BROWARD_ESTIMATOR_ADJUSTMENT, as digits
\* of units of 10^-9
adjusted_surface(surface) == MulSmall(surface, BROWARD_ESTIMATOR_ADJUSTMENT)

\* 1 + waste_percent / 100, in ten-thousandths (waste in hundredths)
WasteFactor(waste) == 10000 + waste

\* final_area = adjusted_surface * (1 + waste_percent / 100): the digits of
\* its magnitude in units of 10^-13
final_area(adjusted, waste) == MulSmall(adjusted, Abs(WasteFactor(waste)))

\* round(final_area, 0)
final_area_field(adjusted, waste) ==
    Sign(WasteFactor(waste)) * RoundDiv10(final_area(adjusted, waste), 13)

\* round(final_squares, 0) in place of round(final_squares, 1), in tenths
final_squares_whole(adjusted, waste) ==
    Sign(WasteFactor(waste)) * 10 * RoundDiv10(final_area(adjusted, waste), 15)

\* final_squares = final_area / 100 and round(final_squares, 1), in tenths
final_squares_field(adjusted, waste) ==
    Sign(WasteFactor(waste)) * RoundDiv10(final_area(adjusted, waste), 14)

\* abs(option - waste_percent) < 1.1
recommended(option, waste) == Abs(option * 100 - waste) < RecommendTolerance

\* one row of waste_breakdown: area_option = adjusted_surface * (1 +
\* option / 100), round(area_option, 0), round(area_option / 100, 1) in
\* tenths
waste_row(adjusted, option, waste) ==
    LET area_option == MulSmall(adjusted, 100 + option)
    IN  [ waste       |-> option,
          area        |-> RoundDiv10(area_option, 11),
          squares     |-> RoundDiv10(area_option, 12),
          recommended |-> recommended(option, waste) ]

\* the loop over BROWARD_WASTE_OPTIONS
waste_breakdown(adjusted, waste) ==
    [ i \in 1..Len(BROWARD_WASTE_OPTIONS) |->
          waste_row(adjusted, BROWARD_WASTE_OPTIONS[i], waste) ]

\* pitch = _safe_int(ai_guess.get("pitch"), 5)
pitch_of(guess) == _safe_int(Get(guess, "pitch"), DefaultPitch)

\* str(ai_guess.get("complexity")).lower(), the default left out
complexity_without_default(guess) == Lower(str(Get(guess, "complexity")))

\* complexity = str(ai_guess.get("complexity", "moderate")).lower()
complexity_of(guess) ==
    IF guess["complexity"] = JMissing THEN S_moderate
    ELSE Lower(str(guess["complexity"]))

\* waste_percent = _safe_float(ai_guess.get("waste_percent"), 12.0)
waste_percent_of(guess) == _safe_float(Get(guess, "waste_percent"), DefaultWaste)

\* round(waste_percent, 1), in tenths
recommended_waste_field(waste) == Sign(waste) * RoundDiv10(Digits(Abs(waste)), 1)

\* the dict generate_broward_estimate returns
EstimateResult(addr, label, ground, guess, front, sketch, map_ok) ==
    LET pitch      == pitch_of(guess)
        complexity == complexity_of(guess)
        waste      == waste_percent_of(guess)
        adjusted   == adjusted_surface(
                          roof_surface(ground, PitchMultiplier(pitch),
                                       ComplexityMultiplier(complexity)))
    IN  [ address             |-> addr,
          city                |-> label,
          ground_area         |-> RoundDiv10(Digits(ground), 2),
          pitch               |-> pitch,
          complexity          |-> complexity,
          recommended_waste   |-> recommended_waste_field(waste),
          adjusted_surface    |-> RoundDiv10(adjusted, 9),
          final_area          |-> final_area_field(adjusted, waste),
          final_squares       |-> final_squares_field(adjusted, waste),
          waste_breakdown     |-> waste_breakdown(adjusted, waste),
          report_front_image  |-> front,
          report_sketch_image |-> sketch,
          map_ok              |-> map_ok ]

(***************************************************************************)
(* The model's answers                                                     *)
(***************************************************************************)
\* the largest whole pitch an answer carries
MaxPitch == 13

\* the largest waste an answer carries, in halves of a percent
MaxWasteHalf == 27

\* the smallest waste of the range of answers, in halves of a percent
MinWasteHalf == 18

Answer(p, c, w) == [pitch |-> p, complexity |-> c, waste_percent |-> w]

\* answers that lack any subset of the three keys
AnswersMissingKeys ==
    { Answer(p, c, w) : p \in { JMissing, JNum(800) },
                        c \in { JMissing, JStr(S_complex) },
                        w \in { JMissing, JNum(1500) } }

\* answers over the pitches: whole numbers, a fraction, numerals, words, null
AnswersPitch ==
    { Answer(p, JStr(S_moderate), JNum(1200)) :
        p \in { JNum(100 * k) : k \in (-1)..MaxPitch }
              \cup { JNum(670), JStr(<<"8">>), JStr(<<"s","t","e","e","p">>), JNull } }

\* answers over the complexities
AnswersComplexity ==
    { Answer(JNum(600), c, JNum(1200)) :
        c \in { JNull, JStr(<<"S","i","m","p","l","e">>), JStr(S_simple),
                JStr(<<"v","e","r","y"," ","c","o","m","p","l","e","x">>), JStr(<<"C","O","M","P","L","E","X">>) } }

\* answers over the waste percentages, in steps of half a percent (binary
\* floating point holds these exactly, so that abs(option - waste_percent)
\* is the exact difference)
AnswersWaste ==
    { Answer(JNum(600), JStr(S_moderate), w) :
        w \in { JNum(50 * k) : k \in MinWasteHalf..MaxWasteHalf }
              \cup { JNum(0), JNum(500), JNum(1600), JNum(2100), JNum(2300),
                     JNum(-1000), JNum(-15000),
                     JStr(<<"1","5">>), JStr(<<"h","i","g","h">>), JNull } }

Answers == AnswersMissingKeys \cup AnswersPitch \cup AnswersComplexity \cup AnswersWaste

\* what the call of the chat completion API may end in, other than an
\* answer holding a JSON object: urlopen raising (URLError, HTTPError, a
\* timeout), a response without choices (KeyError), an empty text or a text
\* without a JSON object (ValueError of _extract_json_object), an object
\* that does not parse (JSONDecodeError)
InferenceFailures ==
    { "URLError", "HTTPError", "timeout", "KeyError", "ValueError: empty",
      "ValueError: no JSON", "JSONDecodeError" }

(***************************************************************************)
(* generate_broward_estimate after the scrape                              *)
(***************************************************************************)
\* lines 2724-2726: the ground area of the scraper, or of the sketch text
\* when that is not positive; _extract_total_adj_area may raise
Ground ==
    /\ pc = "ground"
    /\ LET scraped   == _safe_float(bcpa_data.ground_area, 0)
           extracted == _extract_total_adj_area(bcpa_data.sketch_text)
       IN  IF scraped > 0
           THEN /\ ground_area' = scraped
                /\ pc' = "images"
                /\ error' = error
           ELSE IF extracted.ok
           THEN /\ ground_area' = extracted.v
                /\ pc' = "images"
                /\ error' = error
           ELSE /\ ground_area' = ground_area
                /\ pc' = "failed"
                /\ error' = "ValueError"
    /\ UNCHANGED << reqVars, files, session, quits, handles, active, loc,
                    bcpa_data, photo_data_uri, sketch_data_uri, content,
                    ai_guess, result >>

\* lines 2744-2762: the sketch file as a data URI, when it exists
SketchDataUri(fs, data) ==
    IF data.sketch_file # "" /\ Exists(fs, data.sketch_file)
    THEN Image(data.sketch_file, fs[data.sketch_file])
    ELSE NoImage

\* lines 2764-2773: the street view file stands in for a missing photo
StreetFallback(fs, data, photo) ==
    IF photo = NoImage /\ data.street_file # "" /\ Exists(fs, data.street_file)
    THEN Image(data.street_file, fs[data.street_file])
    ELSE photo

\* lines 2728-2777: fetch the photo (a failed fetch leaves it empty), embed
\* the sketch, fall back to the street view
Images ==
    /\ pc = "images"
    /\ \E fetched \in BOOLEAN :
          LET photo == IF bcpa_data.photo_url = "https" /\ fetched
                       THEN Image("photo_url", "fresh") ELSE NoImage
          IN  photo_data_uri' = StreetFallback(files, bcpa_data, photo)
    /\ sketch_data_uri' = SketchDataUri(files, bcpa_data)
    /\ pc' = "ask"
    /\ UNCHANGED << reqVars, files, session, quits, handles, active, loc,
                    bcpa_data, ground_area, content, ai_guess, result, error >>

\* _as_image_url_obj that takes http(s) URLs alone: None for a data URI
as_image_url_obj_urls_only(part, uri) == << >>

\* _as_image_url_obj of a data URI: the URI itself, None for ""
as_image_url_obj(part, uri) ==
    IF uri = NoImage THEN << >> ELSE << [part |-> part, image |-> uri] >>

\* _as_image_url_obj of the map file path: the file as a data URI when it
\* exists, None otherwise
map_part(fs, path) ==
    IF Exists(fs, path)
    THEN << [part |-> "map", image |-> Image(path, fs[path])] >>
    ELSE << >>

\* the request is built whether or not the map part exists
map_never_missing(fs, path) == FALSE

\* lines 2652-2654: map_part is None
map_missing(fs, path) == map_part(fs, path) = << >>

\* lines 2671-2678: the image parts of the request, photo, sketch, map
request_content(fs, photo, sketch, path) ==
    as_image_url_obj("photo", photo) \o as_image_url_obj("sketch", sketch)
        \o map_part(fs, path)

\* a raise that leaves generate_broward_estimate
Fails(exc) ==
    /\ pc' = "failed"
    /\ error' = exc

\* lines 2782-2786, _ask_openai_pitch_complexity_waste: without the API key
\* or the map it raises; otherwise it builds the request, and the call
\* returns a JSON object or raises
AskOpenAI ==
    /\ pc = "ask"
    /\ IF ~api_key
       THEN /\ Fails("RuntimeError: OPENAI_API_KEY is required")
            /\ UNCHANGED << content, ai_guess >>
       ELSE IF map_missing(files, bcpa_data.map_file)
       THEN /\ Fails("RuntimeError: Map image missing/unreadable")
            /\ UNCHANGED << content, ai_guess >>
       ELSE /\ content' = request_content(files, photo_data_uri,
                                          sketch_data_uri, bcpa_data.map_file)
            /\ \/ \E f \in InferenceFailures :
                    /\ Fails(f)
                    /\ ai_guess' = ai_guess
               \/ \E a \in Answers :
                    /\ ai_guess' = a
                    /\ pc' = "compute"
                    /\ error' = error
    /\ UNCHANGED << reqVars, files, session, quits, handles, active, loc,
                    bcpa_data, ground_area, photo_data_uri, sketch_data_uri,
                    result >>

\* lines 2788-2840: the quantities and the returned dict
Compute ==
    /\ pc = "compute"
    /\ result' = EstimateResult(address, cleaned_city, ground_area, ai_guess,
                                photo_data_uri, sketch_data_uri,
                                Exists(files, bcpa_data.map_file))
    /\ pc' = "done"
    /\ UNCHANGED << reqVars, files, session, quits, handles, active, loc,
                    bcpa_data, ground_area, photo_data_uri, sketch_data_uri,
                    content, ai_guess, error >>

Next ==
    \/ Start
    \/ BcpaCreateDriver \/ BcpaGet \/ BcpaAddrBox \/ BcpaSearch
    \/ BcpaOpenRecord \/ BcpaPhoto \/ BcpaSketchClick \/ BcpaSketchCapture
    \/ BcpaSketchClose \/ BcpaMapClick \/ BcpaMapCapture \/ BcpaMapClose
    \/ BcpaFinally
    \/ PbCreateDriver \/ PbGet \/ PbSearchBox \/ PbGroundArea \/ PbRemovePdfs
    \/ PbSketchButton \/ PbSketchClick \/ PbPdfPoll \/ PbPdfCheck
    \/ PbMapButton \/ PbToolsTab \/ PbPrint \/ PbPrintCapture \/ PbGoogle
    \/ PbStreet \/ PbFinally
    \/ Ground \/ Images \/ AskOpenAI \/ Compute

Spec == Init /\ [][Next]_vars

\* the requests followed to their end: one of each county
LiveRequests ==
    { << Addresses[1], Cities[2] >>, << Addresses[1], Cities[13] >> }

\* one of them arrives, the output directory empty
InitLive ==
    /\ \E r \in LiveRequests : Arrived(r)
    /\ conc = NoConc
    /\ pricing = NoPricing
    /\ page = NoPage
    /\ api_key \in BOOLEAN
    /\ files = [f \in FileNames |-> "absent"]

\* the request is at one of the two steps that only compute (Ground,
\* Compute); either can always be taken there
Computing == pc \in { "ground", "compute" }

\* a step of the scrapers, of the image fetch or of the vision request
Waits == ~Computing /\ Next

\* a computing step has been taken
Returns == Computing /\ pc' \in { "images", "failed", "done" }

\* the request under a server that keeps running it.  Every step of the
\* code takes a bounded time (WebDriverWait(driver, 30), the 20 s deadline
\* of the PDF poll, the timeouts of requests.get and urlopen, the fixed
\* sleeps), so a step that can be taken is taken: weak fairness of Next,
\* stated on pc for the two computing steps, which are enabled exactly
\* when the request is at them
SpecLive ==
    InitLive /\ [][Next]_vars /\ WF_vars(Waits) /\ WF_pc(Returns)

\* the router alone, on every input pair
SpecRouter == InitRouter /\ [][Start]_vars

(***************************************************************************)
(* Requests served at the same time.  The server runs a request per thread *)
(* or worker; every request works in the one directory BROWARD_OUTPUT_DIR  *)
(* (create_driver sets it as the download directory, the scrapers join     *)
(* their fixed file names to it).  conc.files maps a file to the request   *)
(* that wrote it last (0: absent); a request records the writer of each    *)
(* file it reads.  The steps are those of the scrapers and of              *)
(* generate_broward_estimate that touch the directory.                     *)
(***************************************************************************)
\* the requests served at the same time
ConcRequests == { 1, 2 }

\* nothing read yet
NoReads == [ sketch |-> 0, map |-> 0, street |-> 0, pdf |-> 0 ]

\* the files a route works with
RouteFiles(route) ==
    IF route = "palm_beach"
    THEN [ sketch |-> "palm_beach_sketch.png", map |-> "palm_beach_map.png",
           street |-> "palm_beach_street.png" ]
    ELSE [ sketch |-> "sketch.png", map |-> "map.png", street |-> "" ]

\* two requests arrive, each for either county, into an empty directory
InitConc ==
    /\ Arrived(<< Addresses[1], Cities[2] >>)
    /\ api_key = TRUE
    /\ files = [f \in FileNames |-> "absent"]
    /\ pricing = NoPricing
    /\ page = NoPage
    /\ \E routes \in [ConcRequests -> { "broward", "palm_beach" }] :
          conc = [ files |-> [f \in FileNames |-> 0],
                   req   |-> [r \in ConcRequests |->
                                [ route |-> routes[r],
                                  pc |-> IF routes[r] = "palm_beach"
                                         THEN "remove" ELSE "sketch",
                                  latest_pdf |-> FALSE,
                                  read |-> NoReads ]] ]

\* request r moves to position next
ConcGoto(c, r, next) == [c EXCEPT !.req[r].pc = next]

\* driver.save_screenshot(path) of request r
ConcSave(c, r, path, saved) ==
    IF saved THEN [c EXCEPT !.files[path] = r] ELSE c

\* request r opens the file and records who wrote it
ConcRead(c, r, part, path) == [c EXCEPT !.req[r].read[part] = c.files[path]]

\* a step of request r that saves a screenshot (or fails to write it), or
\* raises
ConcCapture(r, route, here, path, next) ==
    /\ conc.req[r].route = route
    /\ conc.req[r].pc = here
    /\ \/ \E saved \in BOOLEAN :
            conc' = ConcGoto(ConcSave(conc, r, path, saved), r, next)
       \/ conc' = ConcGoto(conc, r, "failed")

\* _bcpa_collect_property_data, lines 2404-2421: the sketch screenshot
ConcBcpaSketch(r) ==
    /\ ConcCapture(r, "broward", "sketch", "sketch.png", "map")
    /\ UNCHANGED << pc, address, city, cleaned_city, is_palm_beach, api_key,
                    files, session, quits, handles, active, loc, bcpa_data,
                    estVars, error, pricing, page >>

\* _bcpa_collect_property_data, lines 2435-2436: the map screenshot
ConcBcpaMap(r) ==
    /\ ConcCapture(r, "broward", "map", "map.png", "images")
    /\ UNCHANGED << pc, address, city, cleaned_city, is_palm_beach, api_key,
                    files, session, quits, handles, active, loc, bcpa_data,
                    estVars, error, pricing, page >>

\* _pbcpao_collect_property_data, lines 2485-2495: remove the PDFs of the
\* directory, whoever downloaded them
ConcPbRemovePdfs(r) ==
    /\ conc.req[r].route = "palm_beach"
    /\ conc.req[r].pc = "remove"
    /\ \E removed \in BOOLEAN :
          conc' = ConcGoto(IF removed
                           THEN [conc EXCEPT !.files["sketch.pdf"] = 0]
                           ELSE conc, r, "tab")
    /\ UNCHANGED << pc, address, city, cleaned_city, is_palm_beach, api_key,
                    files, session, quits, handles, active, loc, bcpa_data,
                    estVars, error, pricing, page >>

\* lines 2501-2516: the sketch click; a tab that opened is captured
ConcPbSketchClick(r) ==
    /\ conc.req[r].route = "palm_beach"
    /\ conc.req[r].pc = "tab"
    /\ \/ conc' = ConcGoto(conc, r, "poll")
       \/ \E saved \in BOOLEAN :
            conc' = ConcGoto(ConcSave(conc, r, "palm_beach_sketch.png", saved),
                             r, "poll")
       \/ conc' = ConcGoto(conc, r, "failed")
    /\ UNCHANGED << pc, address, city, cleaned_city, is_palm_beach, api_key,
                    files, session, quits, handles, active, loc, bcpa_data,
                    estVars, error, pricing, page >>

\* lines 2518-2529: the download arrives or not; the newest PDF of the
\* directory is taken
ConcPbPdfPoll(r) ==
    /\ conc.req[r].route = "palm_beach"
    /\ conc.req[r].pc = "poll"
    /\ \E downloaded \in BOOLEAN :
          LET c == ConcSave(conc, r, "sketch.pdf", downloaded)
          IN  conc' = ConcGoto([c EXCEPT !.req[r].latest_pdf =
                                             c.files["sketch.pdf"] # 0],
                               r, "pdfcheck")
    /\ UNCHANGED << pc, address, city, cleaned_city, is_palm_beach, api_key,
                    files, session, quits, handles, active, loc, bcpa_data,
                    estVars, error, pricing, page >>

\* lines 2531-2546: without a PDF go on if the sketch file exists; with one,
\* open it and save its screenshot
ConcPbPdfCheck(r) ==
    /\ conc.req[r].route = "palm_beach"
    /\ conc.req[r].pc = "pdfcheck"
    /\ IF ~conc.req[r].latest_pdf
       THEN conc' = ConcGoto(conc, r,
                             IF conc.files["palm_beach_sketch.png"] # 0
                             THEN "print" ELSE "failed")
       ELSE \/ \E saved \in BOOLEAN :
                 conc' = ConcGoto(
                             ConcSave(ConcRead(conc, r, "pdf", "sketch.pdf"),
                                      r, "palm_beach_sketch.png", saved),
                             r, "print")
            \/ conc' = ConcGoto(conc, r, "failed")
    /\ UNCHANGED << pc, address, city, cleaned_city, is_palm_beach, api_key,
                    files, session, quits, handles, active, loc, bcpa_data,
                    estVars, error, pricing, page >>

\* lines 2573-2575: the map screenshot
ConcPbPrintCapture(r) ==
    /\ ConcCapture(r, "palm_beach", "print", "palm_beach_map.png", "street")
    /\ UNCHANGED << pc, address, city, cleaned_city, is_palm_beach, api_key,
                    files, session, quits, handles, active, loc, bcpa_data,
                    estVars, error, pricing, page >>

\* lines 2588-2595: the street view screenshot
ConcPbStreet(r) ==
    /\ ConcCapture(r, "palm_beach", "street", "palm_beach_street.png",
                   "images")
    /\ UNCHANGED << pc, address, city, cleaned_city, is_palm_beach, api_key,
                    files, session, quits, handles, active, loc, bcpa_data,
                    estVars, error, pricing, page >>

\* generate_broward_estimate, lines 2748-2773: embed the sketch file, and
\* the street view file for the photo, when they exist
ConcImages(r) ==
    /\ conc.req[r].pc = "images"
    /\ LET names == RouteFiles(conc.req[r].route)
           c     == ConcRead(conc, r, "sketch", names.sketch)
       IN  conc' = ConcGoto(IF names.street # ""
                            THEN ConcRead(c, r, "street", names.street)
                            ELSE c, r, "ask")
    /\ UNCHANGED << pc, address, city, cleaned_city, is_palm_beach, api_key,
                    files, session, quits, handles, active, loc, bcpa_data,
                    estVars, error, pricing, page >>

\* _ask_openai_pitch_complexity_waste, lines 2652-2654 and 2678: the map
\* file is read, or the request stops for want of it
ConcAskOpenAI(r) ==
    /\ conc.req[r].pc = "ask"
    /\ LET names == RouteFiles(conc.req[r].route)
       IN  conc' = IF conc.files[names.map] = 0
                   THEN ConcGoto(conc, r, "failed")
                   ELSE ConcGoto(ConcRead(conc, r, "map", names.map), r, "done")
    /\ UNCHANGED << pc, address, city, cleaned_city, is_palm_beach, api_key,
                    files, session, quits, handles, active, loc, bcpa_data,
                    estVars, error, pricing, page >>

NextConc ==
    \E r \in ConcRequests :
        \/ ConcBcpaSketch(r) \/ ConcBcpaMap(r)
        \/ ConcPbRemovePdfs(r) \/ ConcPbSketchClick(r) \/ ConcPbPdfPoll(r)
        \/ ConcPbPdfCheck(r) \/ ConcPbPrintCapture(r) \/ ConcPbStreet(r)
        \/ ConcImages(r) \/ ConcAskOpenAI(r)

\* two requests interleaved step by step
SpecConc == InitConc /\ [][NextConc]_vars

(***************************************************************************)
(* generate_sci_pricing_estimate.  Squares are held in hundredths, prices  *)
(* in cents, multipliers in hundredths; the amounts are digit sequences in *)
(* the unit their definition states.                                       *)
(***************************************************************************)
\* 'shingle', 'tile', 'metal'
S_shingle == <<"s","h","i","n","g","l","e">>

S_tile == <<"t","i","l","e">>

S_metal == <<"m","e","t","a","l">>

\* 'ground', '2_story', '3_plus'
S_ground == <<"g","r","o","u","n","d">>

S_2_story == <<"2","_","s","t","o","r","y">>

S_3_plus == <<"3","_","p","l","u","s">>

\* ' Tile ': a key with blanks and a capital
MATERIAL_TILE_SPACED == <<" ","T","i","l","e"," ">>

\* 'slate': a material the table does not hold
MATERIAL_SLATE == <<"s","l","a","t","e">>

\* '3_PLUS'
ACCESS_3_PLUS_UPPER == <<"3","_","P","L","U","S">>

\* 'crane': an access level the table does not hold
ACCESS_CRANE == <<"c","r","a","n","e">>

\* '31.5'
SQUARES_TEXT == <<"3","1",".","5">>

\* the largest whole number of squares a payload carries
MaxSquares == 45

\* app.py: SCI_MATERIAL_PRICE_PER_SQUARE, in cents
SCI_MATERIAL_PRICE_PER_SQUARE ==
    (S_shingle :> 39431) @@ (S_tile :> 55694) @@ (S_metal :> 61200)

\* app.py: SCI_ACCESS_MULTIPLIERS, in hundredths
SCI_ACCESS_MULTIPLIERS ==
    (S_ground :> 100) @@ (S_2_story :> 110) @@ (S_3_plus :> 120)

\* the labels of the access keys
access_labels ==
    (S_ground :> "Ground / single-story access") @@
    (S_2_story :> "Second-floor / two-story access") @@
    (S_3_plus :> "Third-floor+ / difficult access")

\* the sum of two digit sequences and a carry
AddCarry[a \in Seq(0..9), b \in Seq(0..9), carry \in Nat] ==
    IF a = << >> /\ b = << >> THEN Digits(carry)
    ELSE LET v == DigitAt(a, 1) + DigitAt(b, 1) + carry
         IN  << v % 10 >> \o AddCarry[IF a = << >> THEN a ELSE Tail(a),
                                      IF b = << >> THEN b ELSE Tail(b),
                                      v \div 10]

\* a + b on digit sequences
AddDigits(a, b) == AddCarry[a, b, 0]

\* ds * 10^k: the same amount in a unit k decimal places finer
Finer(ds, k) == [i \in 1..k |-> 0] \o ds

\* payload.get(key, "").strip().lower()
PayloadKey(payload, key) == Lower(Strip(payload[key]))

\* max(float(payload.get("squares", 0) or 0), 0.1), in hundredths; Raised
\* when float() raises
PayloadSquares(payload) ==
    LET given == IF payload.squares = JMissing THEN JNum(0) ELSE payload.squares
        falsy == given \in { JNull, JNum(0), JStr(<< >>) }
        f     == IF falsy THEN Value(0) ELSE float_of(given)
    IN  IF ~f.ok THEN Raised
        ELSE Value(IF f.v > 10 THEN f.v ELSE 10)

\* SCI_MATERIAL_PRICE_PER_SQUARE.get(material_key, the price of shingle)
PricePerSquare(material_key) ==
    IF material_key \in DOMAIN SCI_MATERIAL_PRICE_PER_SQUARE
    THEN SCI_MATERIAL_PRICE_PER_SQUARE[material_key]
    ELSE SCI_MATERIAL_PRICE_PER_SQUARE[S_shingle]

\* SCI_ACCESS_MULTIPLIERS.get(access_key, 1.1), the default of the story
\* multiplier of the standard estimate
AccessMultiplierStory(access_key) ==
    IF access_key \in DOMAIN SCI_ACCESS_MULTIPLIERS
    THEN SCI_ACCESS_MULTIPLIERS[access_key]
    ELSE 110

\* SCI_ACCESS_MULTIPLIERS.get(access_key, 1.0)
AccessMultiplier(access_key) ==
    IF access_key \in DOMAIN SCI_ACCESS_MULTIPLIERS
    THEN SCI_ACCESS_MULTIPLIERS[access_key]
    ELSE 100

\* baseline_material = squares * price_per_square, in units of 10^-4
baseline_material(squares, price_per_square) ==
    MulSmall(Digits(squares), price_per_square)

\* labor_and_install = baseline_material * 0.42, in units of 10^-6
labor_and_install(baseline) == MulSmall(baseline, 42)

\* access_adjustment = (baseline_material + labor_and_install) *
\* (access_multiplier - 1), in units of 10^-8
access_adjustment(baseline, labor, access_multiplier) ==
    MulSmall(AddDigits(Finer(baseline, 2), labor), access_multiplier - 100)

\* the overhead on material and labor alone
overhead_without_access(baseline, labor, access) ==
    MulSmall(Finer(AddDigits(Finer(baseline, 2), labor), 2), 18)

\* overhead_and_margin = (baseline_material + labor_and_install +
\* access_adjustment) * 0.18, in units of 10^-10
overhead_and_margin(baseline, labor, access) ==
    MulSmall(AddDigits(Finer(AddDigits(Finer(baseline, 2), labor), 2), access),
             18)

\* estimated_total = baseline_material + labor_and_install +
\* access_adjustment + overhead_and_margin, in units of 10^-10
estimated_total(baseline, labor, access, overhead) ==
    AddDigits(AddDigits(AddDigits(Finer(baseline, 6), Finer(labor, 4)),
                        Finer(access, 2)), overhead)

\* str.capitalize()
Capitalize(s) ==
    IF s = << >> THEN s
    ELSE << IF \E i \in 1..26 : LowerChars[i] = s[1]
            THEN UpperChars[CHOOSE i \in 1..26 : LowerChars[i] = s[1]]
            ELSE s[1] >> \o Lower(Tail(s))

\* lines 2186-2190: the four amounts and their sum, of the squares (in
\* hundredths), the price and the multiplier
Amounts(squares, price, multiplier) ==
    LET baseline == baseline_material(squares, price)
        labor    == labor_and_install(baseline)
        access   == access_adjustment(baseline, labor, multiplier)
        overhead == overhead_and_margin(baseline, labor, access)
    IN  [ baseline |-> baseline,
          labor    |-> labor,
          access   |-> access,
          overhead |-> overhead,
          total    |-> estimated_total(baseline, labor, access, overhead) ]

\* lines 2198-2219: the returned dict (money rounded to whole dollars,
\* squares in tenths), with the amounts its summary prints
PricingResult(material_key, access_key, squares, price, amounts) ==
    [ raised            |-> FALSE,
      material          |-> Capitalize(material_key),
      access_level      |-> IF access_key \in DOMAIN access_labels
                            THEN access_labels[access_key]
                            ELSE "Standard access",
      squares           |-> RoundDiv10(Digits(squares), 1),
      price_per_square  |-> price,
      baseline_material |-> RoundDiv10(amounts.baseline, 4),
      estimated_total   |-> RoundDiv10(amounts.total, 10),
      summary           |->
          [ baseline |-> RoundDiv10(amounts.baseline, 4),
            labor    |-> RoundDiv10(amounts.labor, 6),
            access   |-> RoundDiv10(amounts.access, 8),
            overhead |-> RoundDiv10(amounts.overhead, 10),
            total    |-> RoundDiv10(amounts.total, 10) ] ]

\* the function once its three inputs are read
PriceOf(material_key, access_key, squares) ==
    IF ~squares.ok THEN [ raised |-> TRUE ]
    ELSE PricingResult(material_key, access_key, squares.v,
                       PricePerSquare(material_key),
                       Amounts(squares.v, PricePerSquare(material_key),
                               AccessMultiplier(access_key)))

\* app.py: generate_sci_pricing_estimate; [raised |-> TRUE] when float()
\* raises
generate_sci_pricing_estimate(payload) ==
    PriceOf(PayloadKey(payload, "material"),
            PayloadKey(payload, "access_level"), PayloadSquares(payload))

\* the material keys a payload may carry
PayloadMaterials ==
    { S_shingle, S_tile, S_metal, MATERIAL_TILE_SPACED, MATERIAL_SLATE, << >> }

\* the access keys a payload may carry
PayloadAccessLevels ==
    { S_ground, S_2_story, S_3_plus, ACCESS_3_PLUS_UPPER, ACCESS_CRANE, << >> }

\* the squares a payload may carry: numbers in hundredths (final_squares of
\* an estimate), none, or the text of a number
PayloadSquaresValues ==
    { JNum(2790), JNum(2770), JNum(100 * MaxSquares), JNum(0), JNum(-500),
      JNull, JMissing, JStr(SQUARES_TEXT) }

\* the payloads of generate_sci_pricing_estimate
Payloads ==
    { [ material |-> m, access_level |-> a, squares |-> s ] :
        m \in PayloadMaterials, a \in PayloadAccessLevels,
        s \in PayloadSquaresValues }

\* a payload is about to be priced
InitPricing ==
    /\ Arrived(<< Addresses[1], Cities[2] >>)
    /\ api_key = TRUE
    /\ files = [f \in FileNames |-> "absent"]
    /\ conc = NoConc
    /\ page = NoPage
    /\ \E p \in Payloads : pricing = [ payload |-> p, result |-> None ]

\* the call of generate_sci_pricing_estimate
Price ==
    /\ pricing.result = None
    /\ pricing.payload # << >>
    /\ pricing' = [pricing EXCEPT
                       !.result = generate_sci_pricing_estimate(pricing.payload)]
    /\ UNCHANGED << pc, address, city, cleaned_city, is_palm_beach, api_key,
                    files, session, quits, handles, active, loc, bcpa_data,
                    estVars, error, conc, page >>

\* the pricing function alone, on every payload
SpecPricing == InitPricing /\ [][Price]_vars

(***************************************************************************)
(* roof_estimator: the POST actions broward_ai_search and add_pricing of   *)
(* the estimator page.  A page is what render_template receives; the forms *)
(* a browser can submit are those of the page shown.  On the page, money   *)
(* is in cents and squares in tenths.                                      *)
(***************************************************************************)
\* the address and the city typed in the search form, and the recipient
PageAddress == Addresses[1]

PageCity == Cities[2]

PageEmail == <<"a","@","b",".","c","o">>

\* the text of a float as the template prints it, of a value in hundredths
float_text(c) ==
    LET whole == NatText(c \div 100)
    IN  IF c % 100 = 0 THEN whole \o S_dot \o << "0" >>
        ELSE IF c % 10 = 0 THEN whole \o S_dot \o NatText((c % 100) \div 10)
        ELSE whole \o S_dot \o NatText((c % 100) \div 10) \o NatText(c % 10)

\* a submitted form; a field the form lacks reads as ""
Form(action, addr, cty, email, material, access, squares, price, baseline,
     total) ==
    [ action |-> action, search_address |-> addr, search_city |-> cty,
      result_email |-> email, pricing_material |-> material,
      access_level |-> access, pricing_squares |-> squares,
      pricing_price_per_square |-> price,
      pricing_baseline_material |-> baseline,
      pricing_estimated_total |-> total ]

\* the search form at the top of the page
MainForms ==
    { Form("broward_ai_search", PageAddress, c, << >>, << >>, << >>, << >>,
           << >>, << >>, << >>) : c \in { PageCity, << >> } }

\* the pricing form of a page that shows a result: address and city of the
\* result, the two selects
PricingForms(p) ==
    IF p.broward_result = None THEN { }
    ELSE { Form("add_pricing", p.broward_result.address,
                p.broward_result.city, << >>, m, a, << >>, << >>, << >>,
                << >>) :
             m \in { S_shingle, S_tile, << >> },
             a \in { S_ground, S_3_plus, << >> } }

\* the email form of a page that shows a result: address and city of the
\* result, the recipient and, when the page shows a pricing, its hidden
\* fields
EmailForms(p) ==
    IF p.broward_result = None THEN { }
    ELSE IF p.pricing_result = None
    THEN { Form("broward_ai_search", p.broward_result.address,
                p.broward_result.city, PageEmail, << >>, << >>, << >>,
                << >>, << >>, << >>) }
    ELSE { Form("broward_ai_search", p.broward_result.address,
                p.broward_result.city, PageEmail,
                p.pricing_form.material, p.pricing_form.access_level,
                float_text(10 * p.pricing_result.squares),
                float_text(p.pricing_result.price_per_square),
                float_text(p.pricing_result.baseline_material),
                float_text(p.pricing_result.estimated_total)) }

\* the ground areas and the answers of the vision model behind the
\* estimates of the page
PageGrounds == { 200000, 0 }

PageAnswers ==
    { Answer(JNum(600), JStr(S_moderate), JNum(1200)),
      Answer(JNum(600), JStr(S_moderate), JNum(1000)) }

\* the photo and the sketch of those estimates: both, or the sketch alone
\* when the photo could not be fetched
PageImages ==
    { << Image("photo_url", "fresh"), Image("sketch.png", "fresh") >>,
      << NoImage, Image("sketch.png", "fresh") >> }

\* what a call of generate_broward_estimate does: it raises, or it returns
\* the result of some ground area and some answer
GenerateOutcomes(addr, cty) ==
    { [ raised |-> TRUE ] } \cup
    { [ raised |-> FALSE,
        result |-> EstimateResult(addr, BrowardLabel(Strip(cty)), g, a,
                                  i[1], i[2], TRUE) ] :
        g \in PageGrounds, a \in PageAnswers, i \in PageImages }

\* what the mail server does with the message
SmtpOutcomes == { "unconfigured", "connect", "starttls", "login", "send", "ok" }

\* the nearest integer to n / d, ties to the even one (n >= 0, d > 0)
RoundRatio(n, d) ==
    LET q == n \div d
        r == n % d
    IN  IF 2 * r > d \/ (2 * r = d /\ q % 2 = 1) THEN q + 1 ELSE q

\* the recommended row of the waste breakdown, the first row without one
recommended_row(rows) ==
    IF \E i \in 1..Len(rows) : rows[i].recommended
    THEN rows[CHOOSE i \in 1..Len(rows) :
                  /\ rows[i].recommended
                  /\ \A j \in 1..(i-1) : ~rows[j].recommended]
    ELSE IF Len(rows) > 0 THEN rows[1] ELSE None

\* app.py: normalize_broward_result (a result has no lot_area)
normalize_broward_result(r) ==
    LET row        == recommended_row(r.waste_breakdown)
        ground     == IF r.ground_area <= 0 THEN 0 ELSE r.ground_area
        area       == IF r.final_area <= 0 /\ row # None
                      THEN row.area ELSE r.final_area
        squares    == IF r.final_squares <= 0 /\ row # None
                      THEN row.squares ELSE r.final_squares
        squares100 == IF squares <= 0 /\ area > 0
                      THEN RoundDiv10(Digits(area), 1) ELSE squares
        divisor    == 1000 + r.recommended_waste
        adjusted   == IF r.adjusted_surface <= 0 /\ area > 0
                      THEN IF divisor > 0
                           THEN RoundRatio(area * 1000, divisor) ELSE area
                      ELSE r.adjusted_surface
    IN  [r EXCEPT !.ground_area      = ground,
                  !.final_area       = area,
                  !.final_squares    = squares100,
                  !.adjusted_surface = adjusted,
                  !.complexity       = IF Strip(r.complexity) = << >>
                                       THEN S_moderate
                                       ELSE Strip(r.complexity)]

\* _to_float of parse_pricing_result_from_form, in hundredths
_to_float(raw) == IF float_of_str(raw).ok THEN float_of_str(raw).v ELSE 0

\* app.py: parse_pricing_result_from_form
parse_pricing_result_from_form(form) ==
    LET material     == Lower(Strip(form.pricing_material))
        access_level == Strip(form.access_level)
        squares_raw  == Strip(form.pricing_squares)
        baseline_raw == Strip(form.pricing_baseline_material)
        price_raw    == Strip(form.pricing_price_per_square)
        total_raw    == Strip(form.pricing_estimated_total)
        has_pricing_payload ==
            \E raw \in { squares_raw, baseline_raw, price_raw, total_raw } :
                raw # << >>
    IN  [ form   |-> [ access_level |-> access_level, material |-> material ],
          result |->
              IF material = << >> \/ access_level = << >> THEN None
              ELSE IF ~has_pricing_payload THEN None
              ELSE [ material          |-> material,
                     access_level      |-> access_level,
                     squares           |->
                         Sign(_to_float(squares_raw)) *
                         RoundDiv10(Digits(Abs(_to_float(squares_raw))), 1),
                     baseline_material |-> _to_float(baseline_raw),
                     price_per_square  |-> _to_float(price_raw),
                     estimated_total   |-> _to_float(total_raw) ] ]

\* the dict of generate_sci_pricing_estimate in the units of the page
PricingDict(r) ==
    [ material          |-> r.material,
      access_level      |-> r.access_level,
      squares           |-> r.squares,
      baseline_material |-> 100 * r.baseline_material,
      price_per_square  |-> r.price_per_square,
      estimated_total   |-> 100 * r.estimated_total ]

\* generate_sci_pricing_estimate on final_squares of a result and the two
\* choices of the pricing form
PriceOfResult(estimate, pricing_form) ==
    generate_sci_pricing_estimate(
        [ squares      |-> JNum(10 * estimate.final_squares),
          material     |-> pricing_form.material,
          access_level |-> pricing_form.access_level ])

\* app.py: _decode_data_uri_image: the image of a data:image/ URI, None
\* for the empty string
_decode_data_uri_image(uri) == IF uri = NoImage THEN None ELSE uri

\* lines 3073-3078: the content ids the <img> tags of
\* build_broward_email_html refer to, whatever the result holds
build_broward_email_html == { "front-photo", "bcpa-sketch" }

\* lines 3098-3103: the images that decode, under their content ids
inline_images(estimate) ==
    { i \in { [ cid   |-> "front-photo",
                image |-> _decode_data_uri_image(estimate.report_front_image) ],
              [ cid   |-> "bcpa-sketch",
                image |-> _decode_data_uri_image(estimate.report_sketch_image) ] } :
        i.image # None }

\* lines 3091-3118: the message: the HTML alternative is added when some
\* image decodes, and each decoded image is attached to it under its id
EstimateMessage(estimate) ==
    [ html     |-> inline_images(estimate) # { },
      cids     |-> IF inline_images(estimate) # { }
                   THEN build_broward_email_html ELSE { },
      attached |-> inline_images(estimate) ]

\* send_estimate_email that lets the errors of smtplib through
send_estimate_email_uncaught(smtp, estimate) ==
    IF smtp = "unconfigured"
    THEN [ raised |-> FALSE, sent |-> FALSE,
           message |-> "SMTP is not configured", msg |-> None ]
    ELSE IF smtp = "ok"
    THEN [ raised |-> FALSE, sent |-> TRUE, message |-> "Estimate emailed",
           msg |-> EstimateMessage(estimate) ]
    ELSE [ raised |-> TRUE, sent |-> FALSE, message |-> "",
           msg |-> EstimateMessage(estimate) ]

\* app.py: send_estimate_email: (sent, message); nothing is raised.  msg is
\* the EmailMessage it built, None when SMTP is not configured.
send_estimate_email(smtp, estimate) ==
    IF smtp = "unconfigured"
    THEN [ raised |-> FALSE, sent |-> FALSE,
           message |-> "SMTP is not configured", msg |-> None ]
    ELSE IF smtp = "ok"
    THEN [ raised |-> FALSE, sent |-> TRUE, message |-> "Estimate emailed",
           msg |-> EstimateMessage(estimate) ]
    ELSE [ raised |-> FALSE, sent |-> FALSE,
           message |-> "Unable to send email",
           msg |-> EstimateMessage(estimate) ]

\* what the email part of broward_ai_search flashes
MailFlashes(mail) ==
    IF mail = None THEN { }
    ELSE IF mail.raised THEN { "Broward & Palm Beach Estimator failed" }
    ELSE IF mail.sent THEN { mail.message }
    ELSE { mail.message, "Tip: configure SMTP_HOST" }

\* lines 3201-3205 and 3255-3259: the search fields of the form, stripped
BrowardForm(form, email) ==
    [ search_address |-> Strip(form.search_address),
      search_city    |-> Strip(form.search_city),
      result_email   |-> Strip(email) ]

\* the page before the estimator has run: the forms, and the pricing the
\* form brought
PageOfForms(broward_form, pricing_form, pricing_result) ==
    [ NoPage EXCEPT !.broward_form = broward_form,
                    !.pricing_form = pricing_form,
                    !.pricing_result = pricing_result ]

\* lines 3217-3222: the pricing is computed when both choices are there
\* and the form brought no pricing
PricedFor(broward_result, parsed) ==
    IF /\ parsed.form.access_level # << >>
       /\ parsed.form.material # << >>
       /\ parsed.result = None
    THEN PricingDict(PriceOfResult(broward_result, parsed.form))
    ELSE parsed.result

\* lines 3214-3247: the estimate is there; pricing, flash, email
SearchDone(page0, broward_result, estimate, priced, mail) ==
    [ page0 EXCEPT
        !.broward_result = broward_result,
        !.estimate = estimate,
        !.pricing_result = priced,
        !.mail = mail,
        !.flashes = { "Broward & Palm Beach Estimator complete." }
                        \cup MailFlashes(mail) ]

\* lines 3209-3251 on the parsed form
BrowardAiSearchOn(broward_form, parsed, page0, outcome, smtp) ==
    IF broward_form.search_address = << >> \/ broward_form.search_city = << >>
    THEN [ page0 EXCEPT !.flashes =
               { "Please provide both address and city" } ]
    ELSE IF outcome.raised
    THEN [ page0 EXCEPT !.flashes =
               { "Broward & Palm Beach Estimator failed" } ]
    ELSE SearchDone(page0, normalize_broward_result(outcome.result),
                    outcome.result,
                    PricedFor(normalize_broward_result(outcome.result), parsed),
                    IF broward_form.result_email # << >>
                    THEN send_estimate_email(
                             smtp, normalize_broward_result(outcome.result))
                    ELSE None)

\* the form as broward_ai_search reads it
SearchRead(broward_form, parsed, outcome, smtp) ==
    BrowardAiSearchOn(broward_form, parsed,
                      PageOfForms(broward_form, parsed.form, parsed.result),
                      outcome, smtp)

\* roof_estimator, action broward_ai_search: the page it renders
BrowardAiSearch(form, outcome, smtp) ==
    SearchRead(BrowardForm(form, form.result_email),
               parse_pricing_result_from_form(form), outcome, smtp)

\* lines 3260-3263: the two choices of the pricing form
PricingForm(form) ==
    [ access_level |-> Strip(form.access_level),
      material     |-> Lower(Strip(form.pricing_material)) ]

\* lines 3272-3280: the estimate is there; its pricing
PricingDone(page0, broward_result, estimate, pricing_form) ==
    [ page0 EXCEPT
        !.broward_result = broward_result,
        !.estimate = estimate,
        !.pricing_result = PricingDict(PriceOfResult(broward_result,
                                                     pricing_form)),
        !.flashes = { "SCI pricing estimate generated." } ]

\* lines 3266-3283 on the parsed form
AddPricingOn(broward_form, pricing_form, page0, outcome) ==
    IF broward_form.search_address = << >> \/ broward_form.search_city = << >>
    THEN [ page0 EXCEPT !.flashes =
               { "Please run Broward & Palm Beach Estimator first" } ]
    ELSE IF pricing_form.access_level = << >> \/ pricing_form.material = << >>
    THEN [ page0 EXCEPT !.flashes =
               { "Please choose both floor level/access and material." } ]
    ELSE IF outcome.raised
    THEN [ page0 EXCEPT !.flashes = { "SCI pricing estimate failed" } ]
    ELSE PricingDone(page0, normalize_broward_result(outcome.result),
                     outcome.result, pricing_form)

\* the form as add_pricing reads it
PricingRead(broward_form, pricing_form, outcome) ==
    AddPricingOn(broward_form, pricing_form,
                 PageOfForms(broward_form, pricing_form, None), outcome)

\* roof_estimator, action add_pricing: the page it renders
AddPricing(form, outcome) ==
    PricingRead(BrowardForm(form, << >>), PricingForm(form), outcome)

\* a GET of the estimator page
InitPage ==
    /\ Arrived(<< PageAddress, PageCity >>)
    /\ api_key = TRUE
    /\ files = [f \in FileNames |-> "absent"]
    /\ conc = NoConc
    /\ pricing = NoPricing
    /\ page = NoPage

\* a POST of the search form or of the email form
broward_ai_search ==
    /\ \E form \in MainForms \cup EmailForms(page) :
         \E outcome \in GenerateOutcomes(Strip(form.search_address),
                                         Strip(form.search_city)),
            smtp \in SmtpOutcomes :
             page' = BrowardAiSearch(form, outcome, smtp)
    /\ UNCHANGED << pc, address, city, cleaned_city, is_palm_beach, api_key,
                    files, session, quits, handles, active, loc, bcpa_data,
                    estVars, error, conc, pricing >>

\* a POST of the pricing form
add_pricing ==
    /\ \E form \in PricingForms(page) :
         \E outcome \in GenerateOutcomes(Strip(form.search_address),
                                         Strip(form.search_city)) :
             page' = AddPricing(form, outcome)
    /\ UNCHANGED << pc, address, city, cleaned_city, is_palm_beach, api_key,
                    files, session, quits, handles, active, loc, bcpa_data,
                    estVars, error, conc, pricing >>

NextPage == broward_ai_search \/ add_pricing

\* the estimator page, one POST after the other
SpecPage == InitPage /\ [][NextPage]_vars

(***************************************************************************)
(* Properties                                                              *)
(***************************************************************************)
\* the positions inside a scraper, after create_driver
ScraperPcs ==
    { "bcpa_get", "bcpa_addr_box", "bcpa_search", "bcpa_open_record",
      "bcpa_photo", "bcpa_sketch_click", "bcpa_sketch_capture",
      "bcpa_sketch_close", "bcpa_map_click", "bcpa_map_capture",
      "bcpa_map_close", "bcpa_finally",
      "pb_get", "pb_search_box", "pb_ground_area", "pb_remove_pdfs",
      "pb_sketch_button", "pb_sketch_click", "pb_pdf_poll", "pb_pdf_check",
      "pb_map_button", "pb_tools_tab", "pb_print", "pb_print_capture",
      "pb_google", "pb_street", "pb_finally" }

\* the errors of the inference step: the key is absent, the HTTP call
\* raises or times out, the response holds no parseable JSON object
InferenceErrors ==
    InferenceFailures \cup { "RuntimeError: OPENAI_API_KEY is required" }

\* C1: a failure of the AI inference step is never propagated to the caller
\* of generate_broward_estimate: the request does not end in one of the
\* inference errors (it would return a result computed with the defaults)
C1_InferenceFailureNotPropagated ==
    pc = "failed" => error \notin InferenceErrors

\* C2: once the browser session exists, a scraper that has ended (with its
\* evidence or with an exception) has called driver.quit() exactly once; no
\* quit happens before the end, and none without a session
C2_SessionReleasedExactlyOnce ==
    /\ quits \in {0, 1}
    /\ session = "none" => quits = 0
    /\ session = "open" => quits = 0 /\ pc \in ScraperPcs
    /\ (session # "none" /\ pc \notin ScraperPcs) =>
           session = "quit" /\ quits = 1

\* a scrape that failed at the sketch click (no new window handle) and
\* released its session
C2_Witness ==
    /\ pc = "failed"
    /\ error = "IndexError"
    /\ session = "quit"
    /\ quits = 1

\* C3: requests served at the same time share no files: under every
\* interleaving, the sketch, map and street files (and the sketch PDF) that
\* a request read on its way to its result are files this request wrote
C3_ReadsOwnFiles ==
    \A r \in DOMAIN conc.req :
        conc.req[r].pc = "done" =>
            \A part \in { "sketch", "map", "street", "pdf" } :
                conc.req[r].read[part] \in { 0, r }

\* the rows of a waste_breakdown that are marked recommended
RecommendedRows(rows) == { i \in 1..Len(rows) : rows[i].recommended }

\* waste (hundredths of a percent) lies within 1.1 of a candidate
NearCandidate(waste) ==
    \E i \in 1..Len(BROWARD_WASTE_OPTIONS) :
        Abs(100 * BROWARD_WASTE_OPTIONS[i] - waste) <= 110

\* C4: in every returned result exactly one row of waste_breakdown is marked
\* recommended when waste_percent lies within 1.1 of a candidate, and none
\* otherwise
C4_ExactlyOneRecommended ==
    result # None =>
        Cardinality(RecommendedRows(result.waste_breakdown)) =
            (IF NearCandidate(waste_percent_of(ai_guess)) THEN 1 ELSE 0)

\* C5 as stated: in every returned result the final_squares field equals the
\* final_area field divided by 100 exactly (final_squares in tenths)
C5_FieldsEqualExactly ==
    result # None => 10 * result.final_squares = result.final_area

\* C5 as amended: final_squares and final_area are roundings (to one decimal
\* and to a whole number) of the same unrounded area, so in every returned
\* result the final_squares field differs from the final_area field divided
\* by 100 by less than 0.06
C5_FieldsAgreeWithinRounding ==
    result # None =>
        Abs(10 * result.final_squares - result.final_area) < 6

\* a returned result whose two fields are not in the ratio 100
C5_Witness ==
    /\ result # None
    /\ result.final_area > 0
    /\ 10 * result.final_squares # result.final_area

\* the answer lacks the key
Missing(guess, key) == guess[key] = JMissing

\* the answer lacks at least one of the three keys
MissingAnyKey(guess) ==
    \E key \in { "pitch", "complexity", "waste_percent" } : Missing(guess, key)

ScrapedPositive(data) == _safe_float(data.ground_area, 0) > 0

\* C9: a request whose scraper returned no positive ground_area and whose
\* sketch text holds no "Total ... number" line fails with an error and
\* returns no result; the request goes past the ground area only with a
\* value from one of the two sources
C9_NoGroundAreaFallback ==
    bcpa_data # None =>
        IF ScrapedPositive(bcpa_data) \/ TotalMatches(bcpa_data.sketch_text)
        THEN result # None =>
                 result.ground_area =
                     RoundDiv10(Digits(
                         IF ScrapedPositive(bcpa_data)
                         THEN _safe_float(bcpa_data.ground_area, 0)
                         ELSE float_of_str(Remove(
                                  TotalGroup(bcpa_data.sketch_text), ",")).v), 2)
        ELSE /\ pc \in { "ground", "failed" }
             /\ result = None
             /\ pc = "failed" => error = "ValueError"

\* a request that failed for want of a ground area
C9_Witness ==
    /\ pc = "failed"
    /\ error = "ValueError"
    /\ bcpa_data # None
    /\ ~ScrapedPositive(bcpa_data)
    /\ ~TotalMatches(bcpa_data.sketch_text)

\* C10: a request whose map image is missing gets no result: it stops with
\* an error before the answer is asked for and any quantity computed; and a
\* request that was built ends with the map as its last image part
C10_MapRequired ==
    /\ (pc \in { "compute", "done" } \/ ai_guess # None \/ result # None) =>
           Exists(files, bcpa_data.map_file)
    /\ content # << >> => content[Len(content)].part = "map"
    /\ error = "RuntimeError: Map image missing/unreadable" =>
           /\ pc = "failed"
           /\ ~Exists(files, bcpa_data.map_file)
           /\ content = << >>
           /\ result = None

\* a request stopped for its missing map: the screenshot of the map was not
\* written, into a directory that held none
C10_Witness ==
    /\ pc = "failed"
    /\ error = "RuntimeError: Map image missing/unreadable"
    /\ bcpa_data # None
    /\ ~Exists(files, bcpa_data.map_file)

\* the decision of the router as C6 amends it, written over the inputs
RoutedToPalmBeach(addr, cty) ==
    \/ Contains(Lower(cty), S_palm_beach)
    \/ Lower(Strip(cty)) \in palm_beach_cities
    \/ Contains(Lower(addr \o S_space \o Strip(cty)), S_palm_beach_county)

\* C6 as stated: a request goes to the Palm Beach scraper if and only if the
\* city contains "Palm Beach" in any letter case, and to the Broward scraper
\* otherwise
C6_PalmBeachIffCityContains ==
    pc # "start" =>
        /\ pc \in { "pb_create", "bcpa_create" }
        /\ pc = "pb_create" <=> Contains(Lower(city), S_palm_beach)

\* C6 as amended: a request goes to the Palm Beach scraper if and only if
\* the city contains "palm beach" in any letter case, or the stripped city
\* is in any letter case one of the fourteen listed Palm Beach County
\* cities, or the address, a space and the stripped city together contain
\* "palm beach county" in any letter case; every other request goes to the
\* Broward scraper
C6_PalmBeachRouting ==
    pc # "start" =>
        /\ pc \in { "pb_create", "bcpa_create" }
        /\ is_palm_beach <=> (pc = "pb_create")
        /\ pc = "pb_create" <=> RoutedToPalmBeach(address, city)

\* a request routed to Palm Beach whose city does not contain "palm beach"
C6_Witness ==
    /\ pc = "pb_create"
    /\ ~Contains(Lower(city), S_palm_beach)

\* the stripped city already indicates Broward
IndicatesBroward(cty) ==
    \/ Contains(Lower(cty), S_broward)
    \/ Lower(cty) \in broward_cities

\* C7: on the Broward route the label is the stripped city unchanged when it
\* contains "broward" or is a recognised Broward-area city, and otherwise the
\* stripped city with " (Broward)" appended ("Broward" for an empty city);
\* the suffix is not appended to a recognised city, nor twice; the result
\* returns the label
C7_BrowardLabel ==
    LET stripped == Strip(city)
    IN  /\ pc \notin { "start", "failed" } /\ ~is_palm_beach =>
              /\ IndicatesBroward(stripped) => cleaned_city = stripped
              /\ ~IndicatesBroward(stripped) /\ stripped # << >> =>
                     cleaned_city = stripped \o S_BrowardSuffix
              /\ stripped = << >> => cleaned_city = S_Broward
              /\ Lower(stripped) \in broward_cities =>
                     ~EndsWith(cleaned_city, S_BrowardSuffix)
              /\ ~EndsWith(cleaned_city, S_BrowardSuffix \o S_BrowardSuffix)
        /\ result # None => result.city = cleaned_city

\* a result of the Broward route for a recognised city given with blanks
\* around it
C7_Witness ==
    /\ result # None
    /\ ~is_palm_beach
    /\ city # Strip(city)
    /\ Lower(Strip(city)) \in broward_cities
    /\ result.city = Strip(city)

\* C11: every returned result has a ground_area greater than 0, whatever
\* number the portal's cell or the "Total" line of the sketch text holds
C11_GroundAreaPositive ==
    result # None => result.ground_area > 0

\* C12: in every returned result the pitch is a key of the pitch table and
\* the complexity is one of simple, moderate, complex, whatever the answer
\* of the model held
C12_PitchAndComplexityOfTheTables ==
    result # None =>
        /\ result.pitch \in DOMAIN BROWARD_PITCH_MULTIPLIERS
        /\ result.complexity \in DOMAIN BROWARD_COMPLEXITY_MULTIPLIERS

\* the inputs of the estimator are ground area 2000, pitch 6, complexity
\* moderate and waste 12
RegressionInputs ==
    /\ ai_guess # None
    /\ ground_area = 200000
    /\ pitch_of(ai_guess) = 6
    /\ complexity_of(ai_guess) = S_moderate
    /\ waste_percent_of(ai_guess) = 1200

\* C13: for ground area 2000, pitch 6, complexity moderate and waste 12 the
\* adjusted surface is 2000 * 1.118 * 1.05 * 1.06 = 2488.668 and the final
\* area 1.12 times that, 2787.30816; every result of these inputs reports
\* adjusted_surface 2489, final_area 2787 and final_squares 27.9
C13_Regression ==
    (result # None /\ RegressionInputs) =>
        /\ adjusted_surface(roof_surface(ground_area, PitchMultiplier(6),
                                         ComplexityMultiplier(S_moderate)))
               = << 0, 0, 0, 0, 0, 0, 8, 6, 6, 8, 8, 4, 2 >>
        /\ result.adjusted_surface = 2489
        /\ result.final_area = 2787
        /\ result.final_squares = 279

\* a result of the regression inputs
C13_Witness ==
    /\ result # None
    /\ RegressionInputs
    /\ result.pitch = 6
    /\ result.final_area = 2787

\* C14: for every pitch that is not a key of the pitch table the multiplier
\* is the table's multiplier for pitch 6: the areas of the result are those
\* of the same request with pitch 6
C14_UnknownPitchAsPitchSix ==
    (result # None /\ result.pitch \notin DOMAIN BROWARD_PITCH_MULTIPLIERS) =>
        LET six == EstimateResult(address, cleaned_city, ground_area,
                                  [ai_guess EXCEPT !.pitch = JNum(600)],
                                  photo_data_uri, sketch_data_uri, TRUE)
        IN  /\ PitchMultiplier(result.pitch) = BROWARD_PITCH_MULTIPLIERS[6]
            /\ result.adjusted_surface = six.adjusted_surface
            /\ result.final_area = six.final_area
            /\ result.final_squares = six.final_squares
            /\ result.waste_breakdown = six.waste_breakdown

\* a result for pitch 11, which the table does not hold, over a ground area
\* of 2000
C14_Witness ==
    /\ result # None
    /\ result.pitch = 11
    /\ result.ground_area = 2000
    /\ result.adjusted_surface = 2489

\* a call of generate_sci_pricing_estimate has returned
Priced == pricing.result # None /\ ~pricing.result.raised

\* the squares the call priced, in hundredths
PricedSquares == PayloadSquares(pricing.payload).v

\* the payload of the call with another access level
WithAccess(a) == [pricing.payload EXCEPT !.access_level = a]

\* squares * price * 1.42 * multiplier * 1.18, in units of 10^-10
ClosedFormTotal(squares, price, multiplier) ==
    MulSmall(MulSmall(MulSmall(MulSmall(Digits(squares), price), 142),
                      multiplier), 118)

\* C15: the estimated total is the sum of the baseline material
\* (squares * price per square), the labor (42% of the baseline), the
\* access adjustment ((baseline + labor) * (multiplier - 1)) and the
\* overhead (18% of baseline + labor + access adjustment), which is
\* squares * price * 1.42 * multiplier * 1.18; the access adjustment is
\* zero for ground access, and for the same squares and material the total
\* does not decrease from ground to 2_story to 3_plus
C15_TotalIsSumOfComponents ==
    Priced =>
        LET r     == pricing.result
            price == PricePerSquare(PayloadKey(pricing.payload, "material"))
            key   == PayloadKey(pricing.payload, "access_level")
            mult  == IF key = S_2_story THEN 110
                     ELSE IF key = S_3_plus THEN 120 ELSE 100
            base  == MulSmall(Digits(PricedSquares), price)
        IN  /\ r.summary.baseline = RoundDiv10(base, 4)
            /\ r.baseline_material = r.summary.baseline
            /\ r.summary.labor = RoundDiv10(MulSmall(base, 42), 6)
            /\ r.summary.access =
                   RoundDiv10(MulSmall(MulSmall(base, 142), mult - 100), 8)
            /\ r.summary.overhead =
                   RoundDiv10(MulSmall(MulSmall(MulSmall(base, 142), mult), 18),
                              10)
            /\ r.estimated_total =
                   RoundDiv10(ClosedFormTotal(PricedSquares, price, mult), 10)
            /\ r.summary.total = r.estimated_total
            /\ key = S_ground => r.summary.access = 0
            /\ generate_sci_pricing_estimate(WithAccess(S_ground)).estimated_total
                 <= generate_sci_pricing_estimate(WithAccess(S_2_story)).estimated_total
            /\ generate_sci_pricing_estimate(WithAccess(S_2_story)).estimated_total
                 <= generate_sci_pricing_estimate(WithAccess(S_3_plus)).estimated_total

\* a roof of 27.9 squares in tile with third-floor access has been priced
C15_Witness ==
    /\ Priced
    /\ pricing.payload.squares = JNum(2790)
    /\ PayloadKey(pricing.payload, "material") = S_tile
    /\ PayloadKey(pricing.payload, "access_level") = S_3_plus
    /\ pricing.result.summary.access > 0
    /\ pricing.result.estimated_total > pricing.result.baseline_material

\* neither key of the payload is one of the tables
UnknownKeys ==
    /\ PayloadKey(pricing.payload, "material")
           \notin DOMAIN SCI_MATERIAL_PRICE_PER_SQUARE
    /\ PayloadKey(pricing.payload, "access_level")
           \notin DOMAIN SCI_ACCESS_MULTIPLIERS

\* the payload of the call with material shingle and ground access
ShingleAtGround ==
    [pricing.payload EXCEPT !.material = S_shingle, !.access_level = S_ground]

\* C16: with a material key outside shingle, tile, metal and an access key
\* outside ground, 2_story, 3_plus (the keys as the function reads them,
\* stripped and in lower case) the function does not fail and returns the
\* price it returns for shingle at ground access with the same squares
C16_UnknownKeysPricedAsShingleGround ==
    (pricing.result # None /\ UnknownKeys) =>
        /\ ~pricing.result.raised
        /\ pricing.result.price_per_square =
               SCI_MATERIAL_PRICE_PER_SQUARE[S_shingle]
        /\ LET r == pricing.result
               s == generate_sci_pricing_estimate(ShingleAtGround)
           IN  /\ r.squares = s.squares
               /\ r.baseline_material = s.baseline_material
               /\ r.estimated_total = s.estimated_total
               /\ r.summary = s.summary
               /\ r.estimated_total =
                      RoundDiv10(ClosedFormTotal(PricedSquares, 39431, 100), 10)

\* slate brought up by crane has been priced
C16_Witness ==
    /\ Priced
    /\ pricing.payload.material = MATERIAL_SLATE
    /\ pricing.payload.access_level = ACCESS_CRANE
    /\ pricing.payload.squares = JNum(2790)
    /\ pricing.result.access_level = "Standard access"
    /\ pricing.result.estimated_total > 0

\* the images the request to the vision model carries for a part
Sent(part) == { content[i].image : i \in { j \in 1..Len(content) : content[j].part = part } }

\* the images the result shows in a field
Shown(image) == IF image = NoImage THEN { } ELSE { image }

\* C18: the photo and the sketch sent to the vision model are the very data
\* the result carries for display in report_front_image and
\* report_sketch_image: neither is shown without being sent, nor sent
\* without being shown
C18_SentImagesAreShownImages ==
    result # None =>
        /\ Sent("photo") = Shown(result.report_front_image)
        /\ Sent("sketch") = Shown(result.report_sketch_image)

\* a result that shows the street view in place of the photo, and a sketch
C18_Witness ==
    /\ result # None
    /\ result.report_front_image # NoImage
    /\ result.report_front_image.src # "photo_url"
    /\ result.report_sketch_image # NoImage
    /\ Len(content) = 3

\* the request has ended: generate_broward_estimate returned or raised
Ended == pc \in { "done", "failed" }

\* a wait of a scraper ran out
TimedOut == loc.raised = "TimeoutException"

\* C20: every estimate request eventually ends, with a result or with a
\* failure; a wait of a scraper for an element, a tab or a file that does
\* not come runs out, and the request then fails rather than waiting on
C20_EveryRequestEnds ==
    /\ <>Ended
    /\ TimedOut ~> (pc = "failed" /\ error = "TimeoutException")

\* a request that failed on a wait that ran out, its browser released
C20_Witness ==
    /\ pc = "failed"
    /\ error = "TimeoutException"
    /\ session = "quit"

\* the page shows a pricing together with an estimate
ShowsPricing == page.broward_result # None /\ page.pricing_result # None

\* C17: a pricing shown together with an estimate was derived from that
\* estimate: its squares are the estimate's final_squares and its amounts
\* are the price of those squares for the material and the access level
\* chosen, also when the form re-submitted the pricing of an earlier run
C17_PricingDerivedFromEstimate ==
    ShowsPricing =>
        LET priced == PricingDict(PriceOfResult(page.broward_result,
                                                page.pricing_form))
        IN  /\ page.pricing_result.squares = page.broward_result.final_squares
            /\ page.pricing_result.price_per_square = priced.price_per_square
            /\ page.pricing_result.baseline_material = priced.baseline_material
            /\ page.pricing_result.estimated_total = priced.estimated_total

\* an email was attempted and not sent
MailFailed == page.mail # None /\ ~page.mail.sent

\* C19: a failure to send the estimate email does not fail the request:
\* send_estimate_email returns (False, message) and raises nothing, the
\* page reports the message rather than a failed estimator, and it still
\* carries the estimate computed in the request, unchanged
C19_EmailFailureNotFatal ==
    MailFailed =>
        /\ ~page.mail.raised
        /\ page.mail.message \in { "SMTP is not configured",
                                   "Unable to send email" }
        /\ page.mail.message \in page.flashes
        /\ "Broward & Palm Beach Estimator failed" \notin page.flashes
        /\ page.estimate # None
        /\ page.broward_result = normalize_broward_result(page.estimate)
        /\ page.broward_result.final_squares > 0 =>
               page.broward_result = page.estimate

\* the mail server refused the message and the page shows the estimate
C19_Witness ==
    /\ MailFailed
    /\ page.mail.message = "Unable to send email"
    /\ page.broward_result # None
    /\ page.broward_result.final_squares = 279

\* the inference call of line 2782 is about to start, or has been made
InferencePending == pc = "ask"

\* the call returned an answer, or it raised (a timeout among the raises)
InferenceReturned ==
    \/ pc \in { "compute", "done" }
    \/ pc = "failed" /\ error \in InferenceFailures

\* C21: the browser session of the scrape is released before the AI
\* inference call starts, so no session is held while the call is pending,
\* and it stays released, quit once, whether the call answers, fails or
\* times out
C21_SessionReleasedBeforeInference ==
    (InferencePending \/ InferenceReturned) =>
        /\ session = "quit"
        /\ quits = 1
        /\ handles = << >>

\* the inference call timed out after a scrape that had ended
C21_Witness ==
    /\ pc = "failed"
    /\ error = "timeout"
    /\ content # << >>
    /\ session = "quit"

\* send_estimate_email built the HTML report part of a message
HtmlBuilt == page.mail # None /\ page.mail.msg # None /\ page.mail.msg.html

\* the content ids of the inline attachments of the message
AttachedCids == { i.cid : i \in page.mail.msg.attached }

\* C22: whenever send_estimate_email builds the HTML report part, the photo
\* and the sketch are both inline attachments of the message, and every
\* content id the HTML refers to has its inline attachment
C22_EveryCidAttached ==
    HtmlBuilt =>
        /\ AttachedCids = { "front-photo", "bcpa-sketch" }
        /\ page.mail.msg.cids \subseteq AttachedCids

\* an HTML part whose front photo has no attachment: the photo of the
\* estimate could not be fetched, the sketch was captured
C22_Witness ==
    /\ HtmlBuilt
    /\ page.estimate.report_front_image = NoImage
    /\ "front-photo" \in page.mail.msg.cids
    /\ "front-photo" \notin AttachedCids

\* the Palm Beach scraper is at its return statement: the evidence is
\* built and finally has not run yet
PbReturns == pc = "pb_finally" /\ loc.raised = ""

\* C23: when the Palm Beach scraper returns its evidence, the tabs it
\* opened for the map capture (the GIS viewer, the print tab and any further
\* tab) have been closed, and the active window is the original property
\* tab, the only one left
C23_TabsUnwoundAtReturn ==
    PbReturns =>
        /\ handles = << 1 >>
        /\ active = 1

\* the Palm Beach scrape went on past the check of lines 2531-2535
PbSketchAccepted ==
    /\ pc \in { "pb_map_button", "pb_tools_tab", "pb_print",
                "pb_print_capture", "pb_google", "pb_street" }
    /\ loc.raised = ""

\* the poll of the download directory found a PDF
PbPdfFound == loc.latest_pdf # ""

\* the tab the sketch click opened was captured in this request
PbTabScreenshot == files["palm_beach_sketch.png"] = "fresh"

\* the check of lines 2531-2535 raised
PbSketchRefused == loc.raised = "Exception: Sketch PDF not saved."

\* C24: after the sketch click of the Palm Beach scraper, the scrape goes on
\* with the PDF the poll found or, without one, with the screenshot of the
\* tab the click opened; with neither a PDF nor a tab screenshot it fails
\* with an error, and it fails for no other reason at this check
C24_SketchFromPdfOrTabOrError ==
    /\ PbSketchAccepted => (PbPdfFound \/ PbTabScreenshot)
    /\ PbSketchRefused => (~PbPdfFound /\ ~PbTabScreenshot)

\* the street view tile was looked for and not found
TileMissing == pc = "pb_finally" /\ loc.street_tile = "missing"

\* the evidence with the ground area, the sketch and the map of the scrape
PbEvidence(data, ground) ==
    /\ data.ground_area = ground
    /\ data.ground_area # JNull
    /\ data.sketch_file = "palm_beach_sketch.png"
    /\ data.map_file = "palm_beach_map.png"

\* C25: in the Palm Beach scraper, once the map has been captured, the
\* street view tile not being found fails nothing: the wait for it raises
\* no exception out of the scraper, and the scraper returns its evidence,
\* with the ground area, the sketch and the map
C25_StreetViewFailureNotFatal ==
    /\ [](TileMissing => loc.raised # "TimeoutException")
    /\ [][ (TileMissing /\ loc.raised = "") =>
              /\ pc' = "ground"
              /\ error' = ""
              /\ PbEvidence(bcpa_data', loc.ground_area) ]_vars

\* the tile was not found and the scraper returned its evidence
C25_Witness ==
    /\ pc = "pb_finally"
    /\ loc.street_tile = "missing"
    /\ loc.raised = ""
    /\ Exists(files, "palm_beach_map.png")

\* the positions of the Broward scraper in the order of its statements:
\* NAVIGATE_SEARCH (bcpa_get, bcpa_addr_box), SUBMIT_QUERY (bcpa_search),
\* OPEN_RECORD, CAPTURE_PHOTO, CAPTURE_SKETCH (click, capture, close),
\* CAPTURE_MAP (click, capture, close), and its end
BcpaOrder ==
    << "bcpa_get", "bcpa_addr_box", "bcpa_search", "bcpa_open_record",
       "bcpa_photo", "bcpa_sketch_click", "bcpa_sketch_capture",
       "bcpa_sketch_close", "bcpa_map_click", "bcpa_map_capture",
       "bcpa_map_close", "bcpa_finally" >>

\* the position after p
BcpaAfter(p) ==
    BcpaOrder[1 + CHOOSE i \in 1..Len(BcpaOrder) : BcpaOrder[i] = p]

\* the Broward scraper is at one of its steps
InBcpaStep ==
    \E i \in 1..(Len(BcpaOrder) - 1) : BcpaOrder[i] = pc

\* a step of the scraper: it succeeds and the next one starts, or it
\* raises and the scraper ends, having captured nothing more
BcpaStepInOrder ==
    InBcpaStep =>
        /\ loc.raised = ""
        /\ \/ /\ loc'.raised = ""
              /\ pc' = BcpaAfter(pc)
           \/ /\ loc'.raised # ""
              /\ pc' = "bcpa_finally"
              /\ files' = files

\* the end of the scraper: DONE with the evidence, or the failure without
BcpaEndsOnce ==
    pc = "bcpa_finally" =>
        /\ files' = files
        /\ IF loc.raised = ""
           THEN pc' = "ground" /\ bcpa_data' # None
           ELSE pc' = "failed" /\ bcpa_data' = None

\* C26: the Broward scraper passes through its steps only in the order
\* NAVIGATE_SEARCH, SUBMIT_QUERY, OPEN_RECORD, CAPTURE_PHOTO, CAPTURE_SKETCH,
\* CAPTURE_MAP, DONE: a step starts when the one before it has returned
\* without raising, none is repeated, and a failure at any step means that
\* no later capture runs and no evidence is returned
C26_BrowardStepsInOrder ==
    /\ [][BcpaStepInOrder]_vars
    /\ [][BcpaEndsOnce]_vars

\* the sketch capture raised after the photo had been read
C26_Witness ==
    /\ pc = "bcpa_finally"
    /\ loc.raised = "WebDriverException"
    /\ loc.photo_url = "https"
    /\ loc.sketch_text = << >>
    /\ ~Exists(files, "map.png")

\* the handles of a sequence of window handles
HandleSet(hs) == { hs[i] : i \in 1..Len(hs) }

\* the Broward scraper is in the tab a capture's click opened
InBcpaCapture ==
    pc \in { "bcpa_sketch_capture", "bcpa_sketch_close",
             "bcpa_map_capture", "bcpa_map_close" }

\* a capture of the Broward scraper has closed its tab and switched back:
\* the sketch capture before the map click, the map capture at the return
AfterBcpaCapture ==
    \/ pc = "bcpa_map_click"
    \/ pc = "bcpa_finally" /\ loc.raised = ""

\* C27: each of the sketch and map captures of the Broward scraper leaves
\* the windows as it found them: the tab it switches to is open and was not
\* among the handles recorded before the click, and once it has closed that
\* tab after the screenshot the open windows are the recorded ones and the
\* active window is the original record tab
C27_CaptureRestoresWindows ==
    /\ InBcpaCapture =>
           /\ active \in HandleSet(handles)
           /\ active \notin HandleSet(loc.existing_handles)
    /\ AfterBcpaCapture =>
           /\ HandleSet(handles) = HandleSet(loc.existing_handles)
           /\ active = 1
           /\ active \in HandleSet(handles)

\* both captures ran, each in a tab of its own, and the scraper returns
C27_Witness ==
    /\ pc = "bcpa_finally"
    /\ loc.raised = ""
    /\ loc.opened = 3
    /\ handles = << 1 >>
    /\ active = 1

\* a capture of the Broward scraper found no new handle when it read
\* driver.window_handles after its click
NoNewHandle ==
    \/ pc = "bcpa_finally" /\ loc.raised = "IndexError"
    \/ pc = "failed" /\ error = "IndexError"

\* C28: the sketch and map captures of the Broward scraper succeed whenever
\* the clicked tab arrives: a handle that appears some time after the click
\* is still detected and captured, and no capture fails because the set
\* difference of the handles was empty when it was read
C28_LateTabStillCaptured == ~NoNewHandle

\* C29: over requests run one after another, the sketch of a request's
\* result was captured during that request: the sketch image embedded in
\* the result is never a screenshot an earlier request left in the output
\* directory, and the PDF the Palm Beach scraper takes its sketch from is
\* never one an earlier request left there, the no-PDF fallback included
C29_SketchOfThisRequest ==
    /\ result # None => result.report_sketch_image.age # "stale"
    /\ (PbSketchAccepted /\ PbPdfFound) => files[loc.latest_pdf] # "stale"

\* C30: in every returned EstimateResult final_area is at least
\* adjusted_surface and so is the area of every row of waste_breakdown: the
\* waste applied is never negative and the final quantity is never
\* negative, whatever waste_percent the answer of the model holds
C30_WasteNeverNegative ==
    result # None =>
        /\ result.final_area >= result.adjusted_surface
        /\ result.final_area >= 0
        /\ result.final_squares >= 0
        /\ \A i \in 1..Len(result.waste_breakdown) :
               result.waste_breakdown[i].area >= result.adjusted_surface

====
